---------------------------- MODULE Spec2Model ----------------------------
(***************************************************************************)
(* A model of atomtools, the Atom / AtomPub XML binding (Python 2).        *)
(*                                                                         *)
(* Python values are tagged records: None, strings, lists, tuples,         *)
(* ElementTree elements and instances of the XMLObject classes.  Every     *)
(* routine returns a record with a field exc: "" when the routine returns  *)
(* normally, the name of the Python exception when it raises.              *)
(***************************************************************************)
EXTENDS Integers, Sequences, FiniteSets, TLC

VARIABLES node, elem, old, ret

vars == <<node, elem, old, ret>>

(***************************************************************************)
(* Bounds of the model.                                                    *)
(***************************************************************************)
MaxLinks == 3

MaxChildren == 2

MaxTextChildren == 2

MaxUnset == 2

MaxDocChildren == 2

\* The parents that a caller encodes one node into.
MaxParents == 2

\* The children of an element whose repeated children are decoded.
MaxListChildren == 3

(***************************************************************************)
(* Python values.                                                          *)
(***************************************************************************)
None == [t |-> "None"]

Str(s) == [t |-> "str", s |-> s]

List(items) == [t |-> "list", items |-> items]

Tuple(items) == [t |-> "tuple", items |-> items]

Bool(b) == [t |-> "bool", b |-> b]

Obj(cls, attrs) == [t |-> "obj", cls |-> cls, attrs |-> attrs]

Element(tag, attrib, text, children, tail) ==
    [t |-> "Element", tag |-> tag, attrib |-> attrib, text |-> text,
     children |-> children, tail |-> tail]

\* The empty dict and keyword set.
NoKw == [k \in {} |-> None]

\* Normal return and raise.
Ok(v) == [exc |-> "", val |-> v]

Raise(e) == [exc |-> e, val |-> None]

\* Python truth value of a value: None, "", empty containers and elements
\* without children are false, instances are true.
Truthy(v) ==
    CASE v.t = "None" -> FALSE
      [] v.t = "str" -> v.s # ""
      [] v.t = "list" -> v.items # <<>>
      [] v.t = "tuple" -> v.items # <<>>
      [] v.t = "bool" -> v.b
      [] v.t = "Element" -> v.children # <<>>
      [] OTHER -> TRUE


(***************************************************************************)
(* Strings.  TLC evaluates Len, Head, Tail, SubSeq and \o on strings.      *)
(***************************************************************************)
\* str.strip()
Strip(s) ==
    LET Whitespace == {" ", "\t", "\n"}
    IN  LET RECURSIVE LStrip(_)
            LStrip(x) ==
                IF x = "" THEN ""
                ELSE IF Head(x) \in Whitespace THEN LStrip(Tail(x)) ELSE x

            RECURSIVE RStrip(_)
            RStrip(x) ==
                IF x = "" THEN ""
                ELSE IF SubSeq(x, Len(x), Len(x)) \in Whitespace
                     THEN RStrip(SubSeq(x, 1, Len(x) - 1)) ELSE x
        IN  RStrip(LStrip(s))

\* str.lower()
RECURSIVE Lower(_)
Lower(s) ==
    LET LowerChar(c) ==
            CASE c = "A" -> "a" [] c = "B" -> "b" [] c = "C" -> "c" [] c = "D" -> "d"
              [] c = "E" -> "e" [] c = "F" -> "f" [] c = "G" -> "g" [] c = "H" -> "h"
              [] c = "I" -> "i" [] c = "J" -> "j" [] c = "K" -> "k" [] c = "L" -> "l"
              [] c = "M" -> "m" [] c = "N" -> "n" [] c = "O" -> "o" [] c = "P" -> "p"
              [] c = "Q" -> "q" [] c = "R" -> "r" [] c = "S" -> "s" [] c = "T" -> "t"
              [] c = "U" -> "u" [] c = "V" -> "v" [] c = "W" -> "w" [] c = "X" -> "x"
              [] c = "Y" -> "y" [] c = "Z" -> "z" [] OTHER -> c
    IN  IF s = "" THEN "" ELSE LowerChar(Head(s)) \o Lower(Tail(s))

StartsWith(s, p) == Len(s) >= Len(p) /\ SubSeq(s, 1, Len(p)) = p

EndsWith(s, p) == Len(s) >= Len(p) /\ SubSeq(s, Len(s) - Len(p) + 1, Len(s)) = p

\* unicode(v): the text of a string, the repr of anything else.
Unicode(v) ==
    CASE v.t = "str" -> v.s
      [] v.t = "None" -> "None"
      [] OTHER -> "<" \o v.t \o ">"

(***************************************************************************)
(* Namespaces and qualified names.  A tag is the text "{uri}local", which  *)
(* is what QName compares and hashes by.                                   *)
(***************************************************************************)
xml_ns == "http://www.w3.org/XML/1998/namespace"

atom_ns == "http://www.w3.org/2005/Atom"

app_ns == "http://www.w3.org/2007/app"

thr_ns == "http://purl.org/syndication/thread/1.0"

asoc_ns == "http://www.alipedis.com/2012/asoc"

ames_ns == "http://www.alipedis.com/2012/ames"

aconf_ns == "http://www.alipedis.com/2012/aconf"

xhtml_ns == "http://www.w3.org/1999/xhtml"

QName(ns, tag) == "{" \o ns \o "}" \o tag

\* The namespaces with a registered prefix, in the order of their prefixes.
Registered ==
    <<[ns |-> aconf_ns, prefix |-> "aconf"], [ns |-> ames_ns, prefix |-> "ames"],
      [ns |-> app_ns, prefix |-> "app"], [ns |-> asoc_ns, prefix |-> "asoc"],
      [ns |-> atom_ns, prefix |-> "atom"], [ns |-> xhtml_ns, prefix |-> "html"],
      [ns |-> thr_ns, prefix |-> "thr"], [ns |-> xml_ns, prefix |-> "xml"]>>

(***************************************************************************)
(* Elements.  attrib maps attribute names to strings.                      *)
(***************************************************************************)
NoAttrib == [k \in {} |-> ""]

\* element.attrib.get(key)
AttrGet(element, key) ==
    IF key \in DOMAIN element.attrib THEN Str(element.attrib[key]) ELSE None

\* element.attrib.get(key, default)
AttrGetDefault(element, key, default) ==
    IF key \in DOMAIN element.attrib THEN element.attrib[key] ELSE default

\* SubElement(parent, tag): the new last child, and the parent holding it.
NewElement(tag) == Element(tag, NoAttrib, None, <<>>, None)

\* parent with its last child replaced by child.
WithLast(parent, child) ==
    [parent EXCEPT !.children = [@ EXCEPT ![Len(@)] = child]]

\* _escape_cdata
RECURSIVE EscapeCdata(_)
EscapeCdata(s) ==
    IF s = "" THEN ""
    ELSE (CASE Head(s) = "&" -> "&amp;"
            [] Head(s) = "<" -> "&lt;"
            [] Head(s) = ">" -> "&gt;"
            [] OTHER -> Head(s)) \o EscapeCdata(Tail(s))

\* _escape_attrib
RECURSIVE EscapeAttrib(_)
EscapeAttrib(s) ==
    IF s = "" THEN ""
    ELSE (CASE Head(s) = "&" -> "&amp;"
            [] Head(s) = "<" -> "&lt;"
            [] Head(s) = ">" -> "&gt;"
            [] Head(s) = "\"" -> "&quot;"
            [] Head(s) = "\n" -> "&#10;"
            [] OTHER -> Head(s)) \o EscapeAttrib(Tail(s))

TagNs(tag) ==
    LET \* The namespace uri and the local part of a tag "{uri}local".
        RECURSIVE UpToBrace(_)
        UpToBrace(s) ==
            IF s = "" \/ Head(s) = "}" THEN "" ELSE Head(s) \o UpToBrace(Tail(s))
    IN  IF StartsWith(tag, "{") THEN UpToBrace(Tail(tag)) ELSE ""

TagLocal(tag) ==
    LET RECURSIVE AfterBrace(_)
        AfterBrace(s) ==
            IF s = "" THEN "" ELSE IF Head(s) = "}" THEN Tail(s) ELSE AfterBrace(Tail(s))
    IN  IF StartsWith(tag, "{") THEN AfterBrace(tag) ELSE tag

\* The prefix the serializer writes for a namespace.
PrefixOf(ns) ==
    LET hit == {i \in 1..Len(Registered) : Registered[i].ns = ns}
    IN  IF hit = {} THEN "ns0" ELSE Registered[CHOOSE i \in hit : TRUE].prefix

\* The name the serializer writes for a tag or an attribute name.
Qualified(tag) ==
    IF TagNs(tag) = "" THEN tag ELSE PrefixOf(TagNs(tag)) \o ":" \o TagLocal(tag)

\* The namespaces of the tags and attribute names of a subtree.
RECURSIVE NamespacesOf(_)
NamespacesOf(e) ==
    ({TagNs(e.tag)} \cup {TagNs(k) : k \in DOMAIN e.attrib}
        \cup UNION {NamespacesOf(e.children[i]) : i \in 1..Len(e.children)})
    \ {""}

\* The xmlns declarations of the serialized root, sorted by prefix.
RECURSIVE XmlnsFrom(_, _)
XmlnsFrom(i, used) ==
    IF i > Len(Registered) THEN ""
    ELSE (IF Registered[i].ns \in used
          THEN " xmlns:" \o Registered[i].prefix \o "=\""
                   \o EscapeAttrib(Registered[i].ns) \o "\""
          ELSE "") \o XmlnsFrom(i + 1, used)

\* The attributes of an element as the serializer writes them.  The model's
\* elements carry at most one attribute where the order would matter.
RECURSIVE AttribText(_, _)
AttribText(attrib, keys) ==
    IF keys = {} THEN ""
    ELSE LET k == CHOOSE x \in keys : TRUE
         IN  " " \o Qualified(k) \o "=\"" \o EscapeAttrib(attrib[k]) \o "\""
                 \o AttribText(attrib, keys \ {k})

\* _serialize_xml: an element, its subtree and its tail.
RECURSIVE SerializeXml(_, _)
SerializeXml(e, xmlns) ==
    LET tag == Qualified(e.tag)
        RECURSIVE Inner(_)
        Inner(i) ==
            IF i > Len(e.children) THEN ""
            ELSE SerializeXml(e.children[i], "") \o Inner(i + 1)
    IN  "<" \o tag \o xmlns \o AttribText(e.attrib, DOMAIN e.attrib)
            \o (IF Truthy(e.text) \/ e.children # <<>>
                THEN ">" \o (IF Truthy(e.text) THEN EscapeCdata(e.text.s) ELSE "")
                         \o Inner(1) \o "</" \o tag \o ">"
                ELSE " />")
            \o (IF Truthy(e.tail) THEN EscapeCdata(e.tail.s) ELSE "")

\* xml.etree.ElementTree.tostring(element)
to_xml_string(e) == SerializeXml(e, XmlnsFrom(1, NamespacesOf(e)))

(***************************************************************************)
(* The class hierarchy.  Every class has a single base, so its __mro__ is  *)
(* the chain of its bases ending in object.                                *)
(***************************************************************************)
Classes ==
    LET AtomClasses ==
            {"AtomCommon", "AtomText", "AtomPerson", "AtomDate", "AtomContent",
             "AtomCategory", "AtomGenerator", "AtomLink", "AtomMeta", "AtomSource",
             "AtomEntry", "AtomFeed"}

        AppClasses ==
            {"AppCategories", "AppAccept", "AppCollection", "AppWorkspace",
             "AppService", "AppSource", "AppEntry", "AppFeed"}

        ExtClasses ==
            {"ThrInReplyTo", "ThrLink", "ThrMixin", "AsocPost", "AsocFeed",
             "AsocPeer", "AsocPeers", "AsocCertificate", "AsocCertificates",
             "AsocService", "AmesPost", "AmesFeed", "AconfLink", "AconfCertificate",
             "AconfCertificates", "AconfService"}
    IN  {"XMLObject"} \cup AtomClasses \cup AppClasses \cup ExtClasses

Parent(c) ==
    CASE c = "XMLObject" -> "object"
      [] c = "AtomCommon" -> "XMLObject"
      [] c \in {"AtomSource", "AtomEntry"} -> "AtomMeta"
      [] c = "AtomFeed" -> "AtomSource"
      [] c = "AppSource" -> "AtomSource"
      [] c = "AppEntry" -> "AtomEntry"
      [] c = "AppFeed" -> "AtomFeed"
      [] c = "ThrLink" -> "AtomLink"
      [] c \in {"AsocFeed", "AmesFeed"} -> "AppFeed"
      [] c \in {"AsocService", "AconfService"} -> "AppService"
      [] c \in {"ThrMixin", "AsocPeer", "AsocPeers", "AsocCertificate",
                "AsocCertificates", "AconfLink", "AconfCertificate",
                "AconfCertificates"} -> "XMLObject"
      [] OTHER -> "AtomCommon"

RECURSIVE Mro(_)
Mro(c) == IF c = "object" THEN <<"object">> ELSE <<c>> \o Mro(Parent(c))

(***************************************************************************)
(* Constructors.  InitParams(c) gives the keyword parameters of c.__init__ *)
(* with their defaults; every __init__ passes the remaining keywords to    *)
(* its base and then assigns its own attributes.                           *)
(***************************************************************************)
Required == [t |-> "required"]

HasInit(c) == c \notin {"XMLObject", "AppEntry"}

InitParams(c) ==
    CASE c = "AtomCommon" -> [base |-> None, lang |-> None]
      [] c = "AtomText" -> [type |-> Str("text"), text |-> None]
      [] c = "AtomPerson" -> [name |-> None, uri |-> None, email |-> None]
      [] c = "AtomDate" -> [datetime |-> None]
      [] c = "AtomContent" -> [type |-> None, src |-> None, content |-> None]
      [] c = "AtomCategory" -> [term |-> None, scheme |-> None, label |-> None]
      [] c = "AtomGenerator" -> [text |-> None, uri |-> None, version |-> None]
      [] c = "AtomLink" ->
            [href |-> None, rel |-> None, type |-> None, hreflang |-> None,
             title |-> None, length |-> None]
      [] c = "AtomMeta" ->
            [authors |-> Tuple(<<>>), categories |-> Tuple(<<>>),
             contributors |-> Tuple(<<>>), id |-> None, links |-> Tuple(<<>>),
             rights |-> Tuple(<<>>), title |-> None, updated |-> None]
      [] c = "AtomSource" ->
            [generator |-> None, icon |-> None, logo |-> None,
             subtitle |-> None]
      [] c = "AtomEntry" ->
            [content |-> None, published |-> None, source |-> None,
             summary |-> None]
      [] c = "AtomFeed" -> [entries |-> Tuple(<<>>)]
      [] c = "AppCategories" ->
            [fixed |-> Bool(FALSE), scheme |-> None, href |-> None,
             categories |-> Tuple(<<>>)]
      [] c = "AppAccept" -> [media_range |-> None]
      [] c = "AppCollection" ->
            [href |-> None, title |-> None, accept |-> Tuple(<<>>),
             categories |-> Tuple(<<>>)]
      [] c = "AppWorkspace" -> [title |-> None]
      [] c = "AppService" -> [workspaces |-> Required]
      [] c \in {"AppSource", "AppFeed"} -> [collection |-> None]
      [] c = "ThrInReplyTo" ->
            [ref |-> None, href |-> None, source |-> None, type |-> None]
      [] c = "ThrLink" -> [count |-> None, updated |-> None]
      [] c = "ThrMixin" -> [total |-> None, in_reply_tos |-> Tuple(<<>>)]
      [] c \in {"AsocPost", "AmesPost"} ->
            [authors |-> Tuple(<<>>), categories |-> Tuple(<<>>),
             content |-> None, id |-> None, links |-> Tuple(<<>>),
             published |-> None, rights |-> None, updated |-> None]
      [] c \in {"AsocFeed", "AmesFeed"} -> [posts |-> Tuple(<<>>)]
      [] c = "AsocPeer" ->
            [id |-> None, uri |-> None, name |-> None,
             categories |-> Tuple(<<>>), links |-> Tuple(<<>>)]
      [] c = "AsocPeers" -> [peers |-> Tuple(<<>>)]
      [] c \in {"AsocCertificate", "AconfCertificate"} ->
            [href |-> None, name |-> None, certificate |-> None]
      [] c \in {"AsocCertificates", "AconfCertificates"} ->
            [certificates |-> Tuple(<<>>)]
      [] c \in {"AsocService", "AconfService"} -> [links |-> Tuple(<<>>)]
      [] c = "AconfLink" -> [href |-> None, rel |-> None, base |-> None]
      [] OTHER -> NoKw

\* The parameters an __init__ stores as list(parameter).
ListParams(c) ==
    CASE c = "AtomMeta" -> {"authors", "categories", "contributors", "links"}
      [] c = "AtomFeed" -> {"entries"}
      [] c = "AppCategories" -> {"categories"}
      [] c = "ThrMixin" -> {"in_reply_tos"}
      [] c \in {"AsocPost", "AmesPost"} -> {"authors", "categories", "links"}
      [] c \in {"AsocFeed", "AmesFeed"} -> {"posts"}
      [] c = "AsocPeer" -> {"categories", "links"}
      [] c = "AsocPeers" -> {"peers"}
      [] c \in {"AsocCertificates", "AconfCertificates"} -> {"certificates"}
      [] c \in {"AsocService", "AconfService"} -> {"links"}
      [] OTHER -> {}

\* __init__ of class c and of its bases, on the keywords kw: the attributes
\* of the new instance, or the exception.  object.__init__ takes no keyword.
RECURSIVE InitChain(_, _)
InitChain(c, kw) ==
    LET \* The body of c.__init__ with its parameters bound and the outcome
        \* up of super(c, self).__init__(**kwargs): the attributes assigned.
        Assign(bound, up) ==
            IF \E p \in DOMAIN bound : bound[p] = Required
            THEN Raise("TypeError")
            ELSE IF c = "AppAccept" THEN Raise("NameError")
            ELSE IF up.exc # "" THEN up
            ELSE IF \E p \in ListParams(c) :
                       bound[p].t \notin {"list", "tuple"}
            THEN Raise("TypeError")
            ELSE Ok([p \in DOMAIN bound |->
                        IF p \in ListParams(c)
                        THEN List(bound[p].items) ELSE bound[p]] @@ up.val)
        \* c.__init__(self, **kw) for the parameters params of c.__init__:
        \* each takes its keyword or its default, the rest goes to the base.
        Run(params) ==
            Assign([p \in DOMAIN params |->
                       IF p \in DOMAIN kw THEN kw[p] ELSE params[p]],
                   InitChain(Parent(c),
                             [k \in (DOMAIN kw) \ (DOMAIN params) |-> kw[k]]))
    IN  IF c = "object"
        THEN IF DOMAIN kw = {} THEN Ok(NoKw) ELSE Raise("TypeError")
        ELSE IF ~HasInit(c) THEN InitChain(Parent(c), kw)
        ELSE Run(InitParams(c))

\* The instance with the attributes its __init__ assigned, or the exception.
Instance(cls, r) == IF r.exc # "" THEN r ELSE Ok(Obj(cls, r.val))

\* cls(**kw)
New(cls, kw) == Instance(cls, InitChain(cls, kw))

(***************************************************************************)
(* atomtools.utils                                                         *)
(***************************************************************************)
\* ''.join of the serialized children of an element.
RECURSIVE JoinChildren(_, _)
JoinChildren(children, i) ==
    IF i > Len(children) THEN ""
    ELSE to_xml_string(children[i]) \o JoinChildren(children, i + 1)

\* flatten_xml_content(element): ''.join raises TypeError on a None item and
\* None has no strip().
flatten_xml_content(element) ==
    IF Len(element.children) > 0
    THEN IF element.text.t = "None" THEN Raise("TypeError")
         ELSE Ok(Str(Strip(element.text.s \o JoinChildren(element.children, 1))))
    ELSE IF element.text.t = "None" THEN Raise("AttributeError")
         ELSE Ok(Str(Strip(element.text.s)))

\* from_text_xml(element)
from_text_xml(element) == element.text

\* wrap_xml_tree(element, tag): Element.makeelement takes the tag and the
\* attributes, so the call makeelement(tag) of the else branch raises.  A
\* child that is no element (a QName that AtomText.prepare_xml appended) has
\* no tag.
wrap_xml_tree(element, tag) ==
    IF Len(element.children) = 1 /\ element.children[1].t # "Element"
    THEN Raise("AttributeError")
    ELSE IF Len(element.children) = 1 /\ element.children[1].tag = tag
    THEN Ok(element.children[1])
    ELSE Raise("TypeError")

(***************************************************************************)
(* Dates: AtomDate.date_re, datetime() and the tzinfo classes.             *)
(***************************************************************************)
Digits == {"0", "1", "2", "3", "4", "5", "6", "7", "8", "9"}

At(s, i) == IF i <= Len(s) THEN SubSeq(s, i, i) ELSE ""

AllDigits(s, i, j) == j <= Len(s) /\ \A k \in i..j : At(s, k) \in Digits

\* int(s) of a string of digits.
RECURSIVE ParseInt(_)
ParseInt(s) ==
    LET DigitVal(c) ==
            CASE c = "0" -> 0 [] c = "1" -> 1 [] c = "2" -> 2 [] c = "3" -> 3
              [] c = "4" -> 4 [] c = "5" -> 5 [] c = "6" -> 6 [] c = "7" -> 7
              [] c = "8" -> 8 [] c = "9" -> 9
    IN  IF s = "" THEN 0
        ELSE 10 * ParseInt(SubSeq(s, 1, Len(s) - 1)) + DigitVal(At(s, Len(s)))

TzInfoUTC == [kind |-> "TzInfoUTC", offset |-> 0]

\* TzInfoFixedOffset(offset), offset in minutes.
TzInfoFixedOffset(offset) == [kind |-> "TzInfoFixedOffset", offset |-> offset]

\* datetime(year, month, day, hour, minute, second, microsecond, tzinfo)
Datetime(year, month, day, hour, minute, second, microsecond, tz) ==
    LET \* The days of month m of year y.
        DaysInMonth(y, m) ==
            CASE m \in {4, 6, 9, 11} -> 30
              [] m = 2 ->
                    IF y % 4 = 0 /\ (y % 100 # 0 \/ y % 400 = 0) THEN 29 ELSE 28
              [] OTHER -> 31
    IN  IF /\ year \in 1..9999 /\ month \in 1..12
           /\ day \in 1..DaysInMonth(year, month)
           /\ hour \in 0..23 /\ minute \in 0..59 /\ second \in 0..59
        THEN Ok([t |-> "datetime", year |-> year, month |-> month, day |-> day,
                 hour |-> hour, minute |-> minute, second |-> second,
                 microsecond |-> microsecond, tzinfo |-> tz])
        ELSE Raise("ValueError")

\* date_re.match(text): the groups, or no match.  match() anchors the start
\* of the text only; the sign of the offset is in no group.
DateMatch(s) ==
    LET \* The end of the digits that start at position i.
        RECURSIVE DigitsEnd(_)
        DigitsEnd(i) == IF At(s, i) \in Digits THEN DigitsEnd(i + 1) ELSE i
    IN  LET head == /\ AllDigits(s, 1, 4) /\ At(s, 5) = "-" /\ AllDigits(s, 6, 7)
                    /\ At(s, 8) = "-" /\ AllDigits(s, 9, 10) /\ At(s, 11) = "T"
                    /\ AllDigits(s, 12, 13) /\ At(s, 14) = ":"
                    /\ AllDigits(s, 15, 16) /\ At(s, 17) = ":"
                    /\ AllDigits(s, 18, 19)
            hasfrac == At(s, 20) = "." /\ At(s, 21) \in Digits
            z == IF hasfrac THEN DigitsEnd(21) ELSE 20
            isZ == At(s, z) = "Z"
            isOff == /\ At(s, z) \in {"+", "-"} /\ AllDigits(s, z + 1, z + 2)
                     /\ At(s, z + 3) = ":" /\ AllDigits(s, z + 4, z + 5)
        IN  IF head /\ (isZ \/ isOff)
            THEN [matched |-> TRUE,
                  year |-> SubSeq(s, 1, 4), mon |-> SubSeq(s, 6, 7),
                  day |-> SubSeq(s, 9, 10), hour |-> SubSeq(s, 12, 13),
                  minute |-> SubSeq(s, 15, 16), sec |-> SubSeq(s, 18, 19),
                  frac |-> IF hasfrac THEN SubSeq(s, 21, z - 1) ELSE "",
                  hasoff |-> ~isZ,
                  offhour |-> IF isZ THEN "" ELSE SubSeq(s, z + 1, z + 2),
                  offmin |-> IF isZ THEN "" ELSE SubSeq(s, z + 4, z + 5)]
            ELSE [matched |-> FALSE]

\* The body of AtomDate.from_xml before the super call: the datetime keyword.
ParseDate(text) ==
    LET \* int(float(frac) * 1000000) of the digits after the point; the model draws
        \* fractions of at most six digits, for which the product is their value.
        Microseconds(digits) ==
            LET six == SubSeq(digits \o "000000", 1, 6) IN ParseInt(six)
    IN  IF text.t = "None" THEN Raise("TypeError")
        ELSE LET m == DateMatch(text.s)
             IN  IF ~m.matched THEN Ok(None)
                 ELSE Datetime(ParseInt(m.year), ParseInt(m.mon), ParseInt(m.day),
                               ParseInt(m.hour), ParseInt(m.minute), ParseInt(m.sec),
                               IF m.frac = "" THEN 0 ELSE Microseconds(m.frac),
                               IF ~m.hasoff THEN TzInfoUTC
                               ELSE TzInfoFixedOffset(ParseInt(m.offhour) * 60
                                                        + ParseInt(m.offmin)))

(***************************************************************************)
(* Decoding: from_xml and inner_from_xml.                                  *)
(***************************************************************************)
\* c.__dict__["inner_factory"], empty for a class that defines none.
inner_factory(c) ==
    LET \* A factory of an inner_factory table: the from_xml of a class, or (in
        \* AconfService) the class itself.
        FromXmlOf(k) == [kind |-> "from_xml", cls |-> k]

        ClassItself(k) == [kind |-> "class", cls |-> k]

        PostFactories ==
            [author |-> FromXmlOf("AtomPerson"),
             category |-> FromXmlOf("AtomCategory"),
             content |-> FromXmlOf("AtomText"), link |-> FromXmlOf("AtomLink"),
             published |-> FromXmlOf("AtomDate"), rights |-> FromXmlOf("AtomText"),
             updated |-> FromXmlOf("AtomDate")]

        NoFactories == [k \in {} |-> FromXmlOf("XMLObject")]
    IN  CASE c = "AtomMeta" ->
                [author |-> FromXmlOf("AtomPerson"),
                 category |-> FromXmlOf("AtomCategory"),
                 contributor |-> FromXmlOf("AtomPerson"),
                 link |-> FromXmlOf("AtomLink"), rights |-> FromXmlOf("AtomText"),
                 title |-> FromXmlOf("AtomText"), updated |-> FromXmlOf("AtomDate")]
          [] c = "AtomSource" ->
                [generator |-> FromXmlOf("AtomGenerator"),
                 subtitle |-> FromXmlOf("AtomText")]
          [] c = "AtomEntry" ->
                [content |-> FromXmlOf("AtomContent"),
                 published |-> FromXmlOf("AtomDate"),
                 source |-> FromXmlOf("AtomSource"),
                 summary |-> FromXmlOf("AtomText")]
          [] c = "AtomFeed" -> [entry |-> FromXmlOf("AtomEntry")]
          [] c = "AppCategories" -> [category |-> FromXmlOf("AtomCategory")]
          [] c = "AppCollection" ->
                [title |-> FromXmlOf("AtomText"), accept |-> FromXmlOf("AppAccept"),
                 categories |-> FromXmlOf("AppCategories")]
          [] c = "AppWorkspace" ->
                [title |-> FromXmlOf("AtomText"),
                 collection |-> FromXmlOf("AppCollection")]
          [] c = "AppService" -> [workspace |-> FromXmlOf("AppWorkspace")]
          [] c = "AppSource" -> [collection |-> FromXmlOf("AppCollection")]
          [] c = "AppEntry" -> [source |-> FromXmlOf("AppSource")]
          [] c = "AppFeed" ->
                [entry |-> FromXmlOf("AppEntry"),
                 collection |-> FromXmlOf("AppCollection")]
          [] c = "AsocPost" -> PostFactories
          [] c = "AmesPost" -> PostFactories @@ [entry |-> FromXmlOf("AtomEntry")]
          [] c = "AsocFeed" -> [post |-> FromXmlOf("AsocPost")]
          [] c = "AmesFeed" -> [post |-> FromXmlOf("AmesPost")]
          [] c = "AsocPeer" ->
                [category |-> FromXmlOf("AtomCategory"),
                 link |-> FromXmlOf("AtomLink")]
          [] c = "AsocPeers" -> [peer |-> FromXmlOf("AsocPeer")]
          [] c = "AsocCertificates" -> [certificate |-> FromXmlOf("AsocCertificate")]
          [] c = "AconfCertificates" ->
                [certificate |-> FromXmlOf("AconfCertificate")]
          [] c = "AsocService" -> [link |-> FromXmlOf("AtomLink")]
          [] c = "AconfService" -> [link |-> ClassItself("AconfLink")]
          [] OTHER -> NoFactories

\* The arms of the child loop of c.from_xml (none for a from_xml without one).
Arms(c) ==
    LET \* One arm of the if/elif chain in the child loop of a from_xml: the tag it
        \* matches, the keyword it fills, how, and the inner_from_xml name it uses.
        Arm(tag, key, mode, name) ==
            [tag |-> tag, key |-> key, mode |-> mode, name |-> name]

        PostArms(content_ns) ==
            <<Arm(QName(atom_ns, "author"), "authors", "append", "author"),
              Arm(QName(atom_ns, "category"), "categories", "append", "category"),
              Arm(QName(content_ns, "content"), "content", "set", "content"),
              Arm(QName(atom_ns, "id"), "id", "text", ""),
              Arm(QName(atom_ns, "link"), "links", "append", "link"),
              Arm(QName(atom_ns, "publised"), "published", "set", "published"),
              Arm(QName(atom_ns, "rights"), "rights", "set", "rights"),
              Arm(QName(atom_ns, "updated"), "updated", "set", "updated")>>
    IN  CASE c = "AtomPerson" ->
                <<Arm(QName(atom_ns, "name"), "name", "text", ""),
                  Arm(QName(atom_ns, "uri"), "uri", "text", ""),
                  Arm(QName(atom_ns, "email"), "email", "text", "")>>
          [] c = "AtomMeta" ->
                <<Arm(QName(atom_ns, "author"), "authors", "append", "author"),
                  Arm(QName(atom_ns, "category"), "categories", "append", "category"),
                  Arm(QName(atom_ns, "contributor"), "contributors", "append",
                      "contributor"),
                  Arm(QName(atom_ns, "id"), "id", "text", ""),
                  Arm(QName(atom_ns, "link"), "links", "append", "link"),
                  Arm(QName(atom_ns, "rights"), "rights", "set", "rights"),
                  Arm(QName(atom_ns, "title"), "title", "set", "title"),
                  Arm(QName(atom_ns, "updated"), "updated", "set", "updated")>>
          [] c = "AtomSource" ->
                <<Arm(QName(atom_ns, "generator"), "generator", "set", "generator"),
                  Arm(QName(atom_ns, "icon"), "icon", "text", ""),
                  Arm(QName(atom_ns, "logo"), "logo", "text", ""),
                  Arm(QName(atom_ns, "subtitle"), "subtitle", "set", "subtitle")>>
          [] c = "AtomEntry" ->
                <<Arm(QName(atom_ns, "content"), "content", "set", "content"),
                  Arm(QName(atom_ns, "publised"), "published", "set", "published"),
                  Arm(QName(atom_ns, "source"), "source", "set", "source"),
                  Arm(QName(atom_ns, "summary"), "summary", "set", "summary")>>
          [] c = "AtomFeed" ->
                <<Arm(QName(atom_ns, "entry"), "entries", "append", "entry")>>
          [] c = "AppCollection" ->
                <<Arm(QName(atom_ns, "title"), "title", "set", "title"),
                  Arm(QName(app_ns, "accept"), "accept", "append", "accept"),
                  Arm(QName(app_ns, "categories"), "categories", "append",
                      "categories")>>
          [] c = "AppWorkspace" ->
                <<Arm(QName(atom_ns, "title"), "title", "set", "title"),
                  Arm(QName(app_ns, "collection"), "collections", "append",
                      "collection")>>
          [] c = "AppService" ->
                <<Arm(QName(app_ns, "workspace"), "workspaces", "append",
                      "workspace")>>
          [] c = "ThrMixin" ->
                <<Arm(QName(thr_ns, "total"), "total", "set", "total"),
                  Arm(QName(thr_ns, "in-reply-to"), "in_reply_tos", "append",
                      "in_reply_to")>>
          [] c = "AsocPost" -> PostArms(asoc_ns)
          [] c = "AmesPost" -> PostArms(ames_ns)
          [] c = "AsocFeed" ->
                <<Arm(QName(asoc_ns, "post"), "entries", "append", "post")>>
          [] c = "AmesFeed" ->
                <<Arm(QName(ames_ns, "post"), "entries", "append", "post")>>
          [] c = "AsocPeer" ->
                <<Arm(QName(atom_ns, "id"), "id", "text", ""),
                  Arm(QName(asoc_ns, "uri"), "uri", "text", ""),
                  Arm(QName(asoc_ns, "name"), "name", "text", ""),
                  Arm(QName(atom_ns, "category"), "categories", "append", "category"),
                  Arm(QName(atom_ns, "link"), "links", "append", "link")>>
          [] c = "AsocPeers" ->
                <<Arm(QName(asoc_ns, "peer"), "peer", "append", "peer")>>
          [] c = "AsocService" ->
                <<Arm(QName(atom_ns, "link"), "links", "append", "link")>>
          [] c = "AconfService" ->
                <<Arm(QName(aconf_ns, "link"), "links", "append", "link")>>
          [] OTHER -> <<>>

\* The keywords c.from_xml sets to [] with kwargs.setdefault before its loop.
SetDefaults(c) ==
    CASE c = "AtomMeta" -> {"authors", "categories", "contributors", "links"}
      [] c = "AtomFeed" -> {"entries"}
      [] c = "AppCollection" -> {"accept", "categories"}
      [] c = "AppWorkspace" -> {"collections"}
      [] c = "AppService" -> {"workspaces"}
      [] c = "ThrMixin" -> {"in_reply_tos"}
      [] c \in {"AsocPost", "AmesPost"} -> {"authors", "categories", "links"}
      [] c \in {"AsocFeed", "AmesFeed"} -> {"entries"}
      [] c = "AsocPeer" -> {"categories", "links"}
      [] c = "AsocPeers" -> {"peers"}
      [] c \in {"AsocService", "AconfService"} -> {"links"}
      [] OTHER -> {}

WithDefaults(c, kw) ==
    [k \in (DOMAIN kw) \cup SetDefaults(c) |->
        IF k \in DOMAIN kw THEN kw[k] ELSE List(<<>>)]

\* kwargs[key] = value
SetKw(kw, key, value) ==
    [k \in (DOMAIN kw) \cup {key} |-> IF k = key THEN value ELSE kw[k]]

\* f(element, a=..., b=..., **kwargs): a keyword given twice is a TypeError.
PassKw(explicit, kw) ==
    IF (DOMAIN explicit) \cap (DOMAIN kw) # {} THEN Raise("TypeError")
    ELSE Ok(explicit @@ kw)

\* A variant of MatchingArm that compares local names only.
MatchingArmByLocalName(arms, tag) ==
    LET hits == {i \in 1..Len(arms) : TagLocal(arms[i].tag) = TagLocal(tag)}
    IN  IF hits = {} THEN 0 ELSE CHOOSE i \in hits : \A j \in hits : i <= j

\* The first arm of the chain whose tag is the child's, 0 when none is.
MatchingArm(arms, tag) ==
    LET hits == {i \in 1..Len(arms) : arms[i].tag = tag}
    IN  IF hits = {} THEN 0 ELSE CHOOSE i \in hits : \A j \in hits : i <= j

\* The attribute-reading from_xml bodies: keyword name -> attribute name.
AttrFields(c) ==
    CASE c = "AtomCommon" ->
            [base |-> QName(xml_ns, "base"), lang |-> QName(xml_ns, "lang")]
      [] c = "AtomCategory" ->
            [term |-> "term", scheme |-> "scheme", label |-> "label"]
      [] c = "AtomLink" ->
            [href |-> "href", rel |-> "rel", type |-> "type",
             hreflang |-> "hreflang", title |-> "title", length |-> "length"]
      [] c = "ThrInReplyTo" ->
            [ref |-> "ref", href |-> "href", source |-> "source",
             type |-> "type"]
      [] c = "ThrLink" ->
            [count |-> QName(thr_ns, "count"), updated |-> QName(thr_ns, "updated")]
      [] c = "AconfLink" ->
            [href |-> "href", rel |-> "rel", base |-> QName(xml_ns, "base")]
      [] c = "AtomGenerator" -> [uri |-> "uri", version |-> "version"]
      [] c \in {"AsocCertificate", "AconfCertificate"} ->
            [href |-> "href", name |-> "name"]
      [] OTHER -> [k \in {} |-> ""]

XmlMediaTypes ==
    {"text/xml", "application/xml", "text/xml-external-parsed-entity",
     "application/xml-external-parsed-entity", "application/xml-dtd"}

\* base64.b64decode(text) of the payloads the model draws; anything else
\* (None, or text outside the alphabet or of a wrong length) is a TypeError.
B64Decode(text) ==
    IF text.t = "None" THEN Raise("TypeError")
    ELSE CASE text.s = "YQ==" -> Ok(Str("a"))
           [] text.s = "YWI=" -> Ok(Str("ab"))
           [] text.s = "" -> Ok(Str(""))
           [] OTHER -> Raise("TypeError")

\* kwargs with key set to the value a call returned, or the exception the
\* call raised.
Field(r, key, kw) == IF r.exc # "" THEN r ELSE Ok(SetKw(kw, key, r.val))

\* AtomText.from_xml once type is read: the text by type.  No branch
\* assigns text for another type, and the name is then unbound.
AtomTextKeywords(element, type) ==
    Field(IF type \in {"text", "html"} THEN flatten_xml_content(element)
          ELSE IF type = "xhtml"
          THEN wrap_xml_tree(element, QName(xhtml_ns, "dvi"))
          ELSE Raise("UnboundLocalError"),
          "text", [type |-> Str(type)])

\* AtomContent.from_xml once type and src are read: the content by type.
AtomContentKeywords(element, type, src) ==
    Field(IF Truthy(src) THEN Ok(None)
          ELSE IF type \in {"text", "html"} THEN flatten_xml_content(element)
          ELSE IF type = "xhtml"
          THEN wrap_xml_tree(element, QName(xhtml_ns, "div"))
          ELSE IF \/ type \in XmlMediaTypes
                  \/ EndsWith(type, "+xml") \/ EndsWith(type, "/xml")
          THEN IF Len(element.children) = 1 /\ ~Truthy(element.text)
               THEN Ok(element.children[1]) ELSE Ok(element)
          ELSE IF StartsWith(type, "text/") THEN Raise("NameError")
          ELSE B64Decode(element.text),
          "content", [type |-> Str(type), src |-> src])

\* The keywords read from attributes: element.attrib.get(name) for each.
AttrKeywords(c, element) ==
    [k \in DOMAIN AttrFields(c) |-> AttrGet(element, AttrFields(c)[k])]

\* The keywords a from_xml body computes from the element itself (not from
\* its children by dispatch), before it calls its base.
OwnKeywords(c, element) ==
    CASE c = "AtomText" ->
            AtomTextKeywords(element,
                Strip(Lower(AttrGetDefault(element, "type", "text"))))
      [] c = "AtomDate" -> Field(ParseDate(element.text), "datetime", NoKw)
      [] c = "AtomContent" ->
            AtomContentKeywords(element,
                Lower(AttrGetDefault(element, "type", "text")),
                AttrGet(element, "src"))
      [] c = "AtomGenerator" ->
            Field(flatten_xml_content(element), "text", AttrKeywords(c, element))
      [] c \in {"AsocCertificate", "AconfCertificate"} ->
            Ok(SetKw(AttrKeywords(c, element), "certificate", element.text))
      [] c = "AppAccept" -> Ok([media_range |-> element.text])
      [] OTHER -> Ok(AttrKeywords(c, element))

RECURSIVE from_xml(_, _, _, _)

\* A from_xml is followed through its chain of super calls: its outcome
\* comes with the from_xml bodies that ran, each with the keywords it was
\* called with, and the constructor calls, each with its keywords, in the
\* order in which they began.
Entered(call, cls, kw) == [call |-> call, cls |-> cls, kw |-> kw]

\* The outcome r of a call that made the calls of trace.
Traced(r, trace) == [exc |-> r.exc, val |-> r.val, trace |-> trace]

\* The outcome of a call for a caller that sees only what it returns or
\* raises.
Untraced(r) == [exc |-> r.exc, val |-> r.val]


RECURSIVE InnerWalk(_, _, _, _)

RECURSIVE ChildLoop(_, _, _, _, _)

\* factory(sub): a from_xml gets sub as its element, a class gets it as its
\* first parameter (href, for AconfLink).
CallFactory(f, sub) ==
    IF f.kind = "from_xml" THEN Untraced(from_xml(f.cls, f.cls, sub, NoKw))
    ELSE New(f.cls, [href |-> sub])

\* The outcome r of the factory f that inner_from_xml invoked.
Invoked(f, r) == [exc |-> r.exc, val |-> r.val, called |-> <<f>>]

\* No class of the __mro__ has the name: raise KeyError, name
NoHandler == [exc |-> "KeyError", val |-> None, called |-> <<>>]

\* The inner_factory of class c, when c has one of its own that has the name.
HasFactory(c, name) == name \in DOMAIN inner_factory(c)

\* A variant of InnerWalk that looks the name up from the least derived
\* class of the __mro__ to the most derived.
RECURSIVE InnerWalkBaseFirst(_, _, _, _)
InnerWalkBaseFirst(mro, i, name, sub) ==
    CASE i > Len(mro) -> NoHandler
      [] i <= Len(mro) /\ ~HasFactory(mro[Len(mro) + 1 - i], name) ->
            InnerWalkBaseFirst(mro, i + 1, name, sub)
      [] OTHER ->
            Invoked(inner_factory(mro[Len(mro) + 1 - i])[name],
                    CallFactory(inner_factory(mro[Len(mro) + 1 - i])[name], sub))

\* The loop of inner_from_xml from position i of the __mro__: the outcome of
\* the call and the factories it invoked.
InnerWalk(mro, i, name, sub) ==
    CASE i > Len(mro) -> NoHandler
      [] i <= Len(mro) /\ ~HasFactory(mro[i], name) ->
            InnerWalk(mro, i + 1, name, sub)
      [] OTHER ->
            Invoked(inner_factory(mro[i])[name],
                    CallFactory(inner_factory(mro[i])[name], sub))

\* cls.inner_from_xml(name, sub)
inner_from_xml(cls, name, sub) == InnerWalk(Mro(cls), 1, name, sub)

\* A variant of ArmFor that has no arm to skip a child: a child that matches
\* no arm is handed to inner_from_xml under no name.
ArmForStrict(c, tag) ==
    IF MatchingArm(Arms(c), tag) = 0
    THEN [tag |-> tag, name |-> "", key |-> "", mode |-> "set"]
    ELSE Arms(c)[MatchingArm(Arms(c), tag)]

\* The arm of c.from_xml's if/elif chain that a child with this tag takes;
\* mode "skip" when no arm matches.
ArmFor(c, tag) ==
    IF MatchingArm(Arms(c), tag) = 0
    THEN [tag |-> tag, name |-> "", key |-> "", mode |-> "skip"]
    ELSE Arms(c)[MatchingArm(Arms(c), tag)]

\* A variant of ChildStore that puts the item at the front of its list.
ChildStoreFront(c, cls, element, i, kw, arm, r) ==
    CASE r.exc # "" -> Raise(r.exc)
      [] r.exc = "" /\ arm.mode = "set" ->
            ChildLoop(c, cls, element, i + 1, SetKw(kw, arm.key, r.val))
      [] OTHER ->
            ChildLoop(c, cls, element, i + 1,
                      SetKw(kw, arm.key, List(<<r.val>> \o kw[arm.key].items)))

\* The arm stores what the decoder r returned and the loop goes on; an
\* exception of the decoder ends from_xml.
ChildStore(c, cls, element, i, kw, arm, r) ==
    CASE r.exc # "" -> Raise(r.exc)
      [] r.exc = "" /\ arm.mode = "set" ->
            ChildLoop(c, cls, element, i + 1, SetKw(kw, arm.key, r.val))
      [] OTHER ->
            ChildLoop(c, cls, element, i + 1,
                      SetKw(kw, arm.key, List(Append(kw[arm.key].items, r.val))))

\* One turn of the loop, for child i, which takes the given arm.
ChildStep(c, cls, element, i, kw, arm) ==
    CASE arm.mode = "skip" -> ChildLoop(c, cls, element, i + 1, kw)
      [] arm.mode = "text" ->
            ChildLoop(c, cls, element, i + 1,
                      SetKw(kw, arm.key, from_text_xml(element.children[i])))
      [] arm.mode = "append" /\ arm.key \notin DOMAIN kw -> Raise("KeyError")
      [] OTHER ->
            ChildStore(c, cls, element, i, kw, arm,
                       inner_from_xml(cls, arm.name, element.children[i]))

\* The child loop of c.from_xml, run for class cls, from child i on: the
\* keywords after the loop, or the exception that ends it.
ChildLoop(c, cls, element, i, kw) ==
    IF i > Len(element.children) THEN Ok(kw)
    ELSE ChildStep(c, cls, element, i, kw,
                   ArmFor(c, element.children[i].tag))

\* f(element, a=..., b=..., **kwargs) with the keywords own the body
\* computed, or the exception that computing them raised.
MergeKw(own, kw) == IF own.exc # "" THEN own ELSE PassKw(own.val, kw)

\* A variant of SuperFromXml that calls the from_xml of the base of the
\* base.
SuperFromXmlSkipping(c, cls, element, kw, r) ==
    IF r.exc # "" THEN Traced(r, <<Entered("from_xml", c, kw)>>)
    ELSE LET Began(base) ==
                 Traced(base, <<Entered("from_xml", c, kw)>> \o base.trace)
         IN  Began(from_xml(IF Parent(c) \in {"XMLObject", "object"}
                            THEN Parent(c) ELSE Parent(Parent(c)),
                            cls, element, r.val))

\* return super(c, cls).from_xml(element, **kwargs), unless the body, which
\* was called with kw and computed the keywords r, raised.
SuperFromXml(c, cls, element, kw, r) ==
    IF r.exc # "" THEN Traced(r, <<Entered("from_xml", c, kw)>>)
    ELSE LET Began(base) ==
                 Traced(base, <<Entered("from_xml", c, kw)>> \o base.trace)
         IN  Began(from_xml(Parent(c), cls, element, r.val))

\* The from_xml defined by class c (or the one c inherits), called for class
\* cls on element with the keywords kw the derived classes collected.
from_xml(c, cls, element, kw) ==
    CASE c \in {"object", "XMLObject"} ->
            Traced(New(cls, kw), <<Entered("from_xml", c, kw), Entered("__init__", cls, kw)>>)
      [] c = "AppEntry" -> from_xml(Parent(c), cls, element, kw)
      [] c \in {"AsocCertificates", "AconfCertificates"} ->
            Traced(Raise("NameError"), <<Entered("from_xml", c, kw)>>)
      [] c \in {"AppFeed", "AppSource"} ->
            Traced(Raise("TypeError"), <<Entered("from_xml", c, kw)>>)
      [] c = "AppCategories" ->
            IF AttrGet(element, "href") # None
            THEN SuperFromXml(c, cls, element, kw,
                    Ok(SetKw(SetKw(SetKw(kw, "fixed", Bool(FALSE)),
                                   "scheme", None),
                             "categories", Tuple(<<>>))))
            ELSE Traced(Raise("NameError"), <<Entered("from_xml", c, kw)>>)
      [] Arms(c) # <<>> ->
            SuperFromXml(c, cls, element, kw,
                         ChildLoop(c, cls, element, 1, WithDefaults(c, kw)))
      [] OTHER ->
            SuperFromXml(c, cls, element, kw,
                         MergeKw(OwnKeywords(c, element), kw))

(***************************************************************************)
(* Encoding: prepare_xml, create_xml and create_root_xml.                  *)
(*                                                                         *)
(* Steps(c, self) lists the statements that the prepare_xml of class c     *)
(* executes on self, in order, with the conditions on self decided.  A     *)
(* statement that cannot be evaluated is the raise of its exception: the   *)
(* name IncompleteObjectError is not imported by atom.py or atompub.py,    *)
(* so the raise statements naming it raise NameError.                      *)
(***************************************************************************)
\* "%0<width>d" % n for n >= 0
Fmt(n, width) ==
    LET DigitChar(d) == SubSeq("0123456789", d + 1, d + 1)

        \* "%d" % k for k >= 0
        RECURSIVE Decimal(_)
        Decimal(k) ==
            IF k < 10 THEN DigitChar(k)
            ELSE Decimal(k \div 10) \o DigitChar(k % 10)

        RECURSIVE ZeroPad(_, _)
        ZeroPad(z, w) == IF Len(z) >= w THEN z ELSE ZeroPad("0" \o z, w)
    IN  ZeroPad(Decimal(n), width)

\* tzinfo.tzname(dt): "Z" for TzInfoUTC, the name u"%s%02d:%02d" that
\* TzInfoFixedOffset.__init__ formats (%d truncates abs(offset) / 60.).
tzname(tz) ==
    LET Abs(n) == IF n < 0 THEN 0 - n ELSE n
    IN  IF tz.kind = "TzInfoUTC" THEN "Z"
        ELSE (IF tz.offset < 0 THEN "-" ELSE "+")
                \o Fmt(Abs(tz.offset) \div 60, 2) \o ":" \o Fmt(Abs(tz.offset) % 60, 2)

\* A datetime without tzinfo has tzinfo None.
NoTzInfo == [kind |-> "None", offset |-> 0]

\* The text AtomDate.prepare_xml formats.
FormatDate(dt) ==
    LET \* s.rstrip("0")
        RECURSIVE RStripZeros(_)
        RStripZeros(s) ==
            IF s # "" /\ SubSeq(s, Len(s), Len(s)) = "0"
            THEN RStripZeros(SubSeq(s, 1, Len(s) - 1)) ELSE s
    IN  Fmt(dt.year, 4) \o "-" \o Fmt(dt.month, 2) \o "-" \o Fmt(dt.day, 2) \o "T"
            \o Fmt(dt.hour, 2) \o ":" \o Fmt(dt.minute, 2) \o ":"
            \o Fmt(dt.second, 2)
            \o (IF dt.microsecond # 0
                THEN RStripZeros("." \o Fmt(dt.microsecond, 6)) ELSE "")
            \o (IF dt.tzinfo # NoTzInfo THEN tzname(dt.tzinfo) ELSE "Z")

\* base64.b64encode(content) of the payloads the model draws; None is a
\* TypeError.
B64Encode(content) ==
    IF content.t # "str" THEN Raise("TypeError")
    ELSE CASE content.s = "a" -> Ok(Str("YQ=="))
           [] content.s = "ab" -> Ok(Str("YWI="))
           [] content.s = "" -> Ok(Str(""))

\* hasattr(self, name)
HasAttr(self, name) == name \in DOMAIN self.attrs

\* a or b
Or(a, b) == IF Truthy(a) THEN a ELSE b

\* The statements of the prepare_xml of class c, for self.  A class that
\* defines no prepare_xml runs the one it inherits.
Steps(c, self) ==
    LET \* super(c, self).prepare_xml(element)
        StSuper == [op |-> "super"]

        \* A statement that raises.
        StRaise(e) == [op |-> "raise", exc |-> e]

        \* element.attrib[key] = value
        StAttr(key, value) == [op |-> "attr", key |-> key, value |-> value]

        \* element.text = value
        StText(value) == [op |-> "text", value |-> value]

        \* create_text_xml(text, element, tag)
        StTextChild(text, tag) == [op |-> "create_text_xml", text |-> text, tag |-> tag]

        \* item.create_xml(element, tag), or item.create_xml(element) for tag ""
        StChild(item, tag) == [op |-> "create_xml", item |-> item, tag |-> tag]

        \* element.append(child)
        StAppend(child) == [op |-> "append", child |-> child]

        \* if cond: steps
        If(cond, steps) == IF cond THEN steps ELSE <<>>

        \* for item in items: item.create_xml(element, tag); only a list or a
        \* tuple is iterated here, None is not iterable.
        Each(items, tag) ==
            IF items.t \notin {"list", "tuple"} THEN <<StRaise("TypeError")>>
            ELSE [i \in 1..Len(items.items) |-> StChild(items.items[i], tag)]

        \* if self.<name> is not None: element.attrib[key] = self.<name>
        AttrIfSet(name, key) ==
            If(self.attrs[name] # None, <<StAttr(key, self.attrs[name])>>)

        \* if self.<name>: self.<name>.create_xml(element, tag)
        ChildIfTrue(name, tag) ==
            If(Truthy(self.attrs[name]), <<StChild(self.attrs[name], tag)>>)

        \* The object QName(xhtml_ns, "div") that AtomText.prepare_xml appends.
        QNameObject(ns, tag) == [t |-> "QName", text |-> QName(ns, tag)]

        \* AtomText.prepare_xml after the type attribute: the text.
        AtomTextSteps ==
            IF self.attrs.type # None /\ Lower(self.attrs.type.s) = "xhtml"
            THEN IF self.attrs.text = None
                 THEN <<StAppend(QNameObject(xhtml_ns, "div"))>>
                 ELSE IF self.attrs.text.t = "obj"
                 THEN <<StChild(self.attrs.text, "")>>
                 ELSE <<StAppend(self.attrs.text)>>
            ELSE If(Truthy(self.attrs.text),
                    <<StText(Str(Unicode(self.attrs.text)))>>)

        \* The text a statement element.text = f(...) assigns, or its exception.
        TextOrRaise(r) == IF r.exc # "" THEN StRaise(r.exc) ELSE StText(r.val)

        \* AtomContent.prepare_xml after the type attribute: the content by type.
        \* The name src is not defined, and an AtomContent has no attribute text.
        AtomContentSteps ==
            IF Truthy(self.attrs.src) THEN <<StRaise("NameError")>>
            ELSE IF self.attrs.type = None \/ self.attrs.type.s \in {"text", "html"}
            THEN <<StText(Str(Unicode(self.attrs.content)))>>
            ELSE IF \/ self.attrs.type.s \in {"xhtml"} \cup XmlMediaTypes
                    \/ EndsWith(self.attrs.type.s, "+xml")
                    \/ EndsWith(self.attrs.type.s, "/xml")
            THEN <<StRaise("AttributeError")>>
            ELSE IF StartsWith(self.attrs.type.s, "text/")
            THEN <<StText(Str(Unicode(self.attrs.content)))>>
            ELSE <<TextOrRaise(B64Encode(self.attrs.content))>>

        \* AsocPost.prepare_xml and AmesPost.prepare_xml after the call of super;
        \* ns is the namespace of the content child.
        PostSteps(ns) ==
            Each(self.attrs.authors, QName(atom_ns, "author"))
                \o Each(self.attrs.categories, QName(atom_ns, "category"))
                \o ChildIfTrue("content", QName(ns, "content"))
                \o If(self.attrs.id # None,
                      <<StTextChild(self.attrs.id, QName(atom_ns, "id"))>>)
                \o Each(self.attrs.links, QName(atom_ns, "link"))
                \o ChildIfTrue("published", QName(atom_ns, "published"))
                \o ChildIfTrue("rights", QName(atom_ns, "rights"))
                \o ChildIfTrue("updated", QName(atom_ns, "updated"))

        \* if self.<name>: create_text_xml(self.<name>, element, tag)
        TextChildIfTrue(name, tag) ==
            If(Truthy(self.attrs[name]), <<StTextChild(self.attrs[name], tag)>>)
    IN  CASE c = "XMLObject" -> <<>>
          [] c = "AtomCommon" ->
                <<StSuper>> \o AttrIfSet("base", QName(xml_ns, "base"))
                    \o AttrIfSet("lang", QName(xml_ns, "lang"))
          [] c = "AtomText" ->
                <<StSuper>> \o AttrIfSet("type", "type") \o AtomTextSteps
          [] c = "AtomPerson" ->
                <<StSuper, StTextChild(self.attrs.name, QName(atom_ns, "name"))>>
                    \o TextChildIfTrue("uri", QName(atom_ns, "uri"))
                    \o TextChildIfTrue("email", QName(atom_ns, "email"))
          [] c = "AtomDate" ->
                IF self.attrs.datetime = None THEN <<StRaise("NameError")>>
                ELSE <<StSuper, StText(Str(FormatDate(self.attrs.datetime)))>>
          [] c = "AtomContent" ->
                <<StSuper>>
                    \o If(Truthy(self.attrs.type), <<StAttr("type", self.attrs.type)>>)
                    \o AtomContentSteps
          [] c = "AtomCategory" ->
                <<StSuper, StAttr("term", Or(self.attrs.term, Str("")))>>
                    \o If(Truthy(self.attrs.scheme),
                          <<StAttr("scheme", self.attrs.scheme)>>)
                    \o If(Truthy(self.attrs.label),
                          <<StAttr("label", self.attrs.label)>>)
          [] c = "AtomGenerator" ->
                <<StSuper, StText(self.attrs.text)>>
                    \o If(Truthy(self.attrs.uri), <<StAttr("uri", self.attrs.uri)>>)
                    \o If(Truthy(self.attrs.version),
                          <<StAttr("version", self.attrs.version)>>)
          [] c = "AtomLink" ->
                <<StSuper, StAttr("href", Or(self.attrs.href, Str("")))>>
                    \o AttrIfSet("rel", "rel")
                    \o AttrIfSet("type", "type")
                    \o AttrIfSet("hreflang", "hreflang")
                    \o AttrIfSet("title", "title")
                    \o AttrIfSet("length", "length")
          [] c = "AtomMeta" ->
                <<StSuper>>
                    \o Each(self.attrs.authors, QName(atom_ns, "author"))
                    \o Each(self.attrs.categories, QName(atom_ns, "category"))
                    \o Each(self.attrs.contributors, QName(atom_ns, "contributor"))
                    \o If(self.attrs.id # None,
                          <<StTextChild(self.attrs.id, QName(atom_ns, "id"))>>)
                    \o Each(self.attrs.links, QName(atom_ns, "link"))
                    \o ChildIfTrue("rights", QName(atom_ns, "rights"))
                    \o ChildIfTrue("title", QName(atom_ns, "title"))
                    \o ChildIfTrue("updated", QName(atom_ns, "updated"))
          [] c = "AtomSource" ->
                <<StSuper>>
                    \o ChildIfTrue("generator", QName(atom_ns, "generator"))
                    \o If(self.attrs.icon # None,
                          <<StTextChild(self.attrs.icon, QName(atom_ns, "icon"))>>)
                    \o If(self.attrs.logo # None,
                          <<StTextChild(self.attrs.logo, QName(atom_ns, "logo"))>>)
                    \o ChildIfTrue("subtitle", QName(atom_ns, "subtitle"))
          [] c = "AtomEntry" ->
                <<StSuper>>
                    \o ChildIfTrue("content", QName(atom_ns, "content"))
                    \o ChildIfTrue("published", QName(atom_ns, "published"))
                    \o ChildIfTrue("source", QName(atom_ns, "source"))
                    \o ChildIfTrue("summary", QName(atom_ns, "summary"))
          [] c = "AtomFeed" ->
                <<StSuper>> \o Each(self.attrs.entries, QName(atom_ns, "entry"))
          [] c = "AppCategories" ->
                <<StSuper>>
                    \o (IF self.attrs.href # None
                        THEN <<StAttr("href", self.attrs.href)>>
                        ELSE If(Truthy(self.attrs.fixed),
                                <<StAttr("fixed", Str("yes"))>>)
                                \o <<StRaise("AttributeError")>>)
          [] c = "AppAccept" ->
                <<StSuper>>
                    \o If(self.attrs.media_range # None,
                          <<StText(self.attrs.media_range)>>)
          [] c = "AppCollection" ->
                IF self.attrs.href = None \/ ~Truthy(self.attrs.title)
                THEN <<StRaise("NameError")>>
                ELSE <<StSuper, StAttr("href", self.attrs.href),
                       StChild(self.attrs.title, QName(atom_ns, "title"))>>
                        \o Each(self.attrs.accept, QName(app_ns, "accept"))
                        \o Each(self.attrs.categories, QName(app_ns, "categories"))
          [] c = "AppWorkspace" ->
                IF ~Truthy(self.attrs.title) THEN <<StRaise("NameError")>>
                ELSE <<StSuper>>
                        \o (IF HasAttr(self, "collections")
                            THEN Each(self.attrs.collections,
                                      QName(app_ns, "collection"))
                            ELSE <<StRaise("AttributeError")>>)
          [] c = "AppService" ->
                IF ~Truthy(self.attrs.workspaces) THEN <<StRaise("NameError")>>
                ELSE <<StSuper>>
                        \o Each(self.attrs.workspaces, QName(app_ns, "workspace"))
          [] c \in {"AppSource", "AppFeed"} -> <<StRaise("TypeError")>>
          [] c = "ThrInReplyTo" ->
                <<StSuper>> \o AttrIfSet("ref", "ref")
                    \o AttrIfSet("href", "href")
                    \o AttrIfSet("source", "source")
                    \o AttrIfSet("type", "type")
          [] c = "ThrLink" ->
                <<StSuper>> \o AttrIfSet("count", QName(thr_ns, "count"))
                    \o AttrIfSet("updated", QName(thr_ns, "updated"))
          [] c = "ThrMixin" ->
                <<StSuper>> \o ChildIfTrue("total", QName(thr_ns, "total"))
                    \o Each(self.attrs.in_reply_tos, "")
          [] c = "AsocPost" -> <<StSuper>> \o PostSteps(asoc_ns)
          [] c = "AmesPost" -> <<StSuper>> \o PostSteps(ames_ns)
          [] c = "AsocPeer" ->
                <<StSuper>> \o TextChildIfTrue("id", QName(atom_ns, "id"))
                    \o TextChildIfTrue("uri", QName(asoc_ns, "uri"))
                    \o TextChildIfTrue("name", QName(asoc_ns, "name"))
                    \o Each(self.attrs.categories, "")
                    \o Each(self.attrs.links, "")
          [] c = "AsocPeers" -> <<StSuper>> \o Each(self.attrs.peers, "")
          [] c \in {"AsocCertificate", "AconfCertificate"} ->
                <<StSuper>> \o AttrIfSet("href", "href")
                    \o AttrIfSet("name", "name")
                    \o If(Truthy(self.attrs.certificate),
                          <<StText(self.attrs.certificate)>>)
          [] c \in {"AsocCertificates", "AconfCertificates"} ->
                <<StSuper>> \o Each(self.attrs.certificates, "")
          [] c \in {"AsocService", "AconfService"} ->
                <<StSuper>> \o Each(self.attrs.links, "")
          [] c = "AconfLink" ->
                <<StSuper>> \o AttrIfSet("href", "href")
                    \o AttrIfSet("rel", "rel")
                    \o AttrIfSet("base", QName(xml_ns, "base"))
          [] OTHER -> <<StSuper>>

\* The default of the tag parameter of the create_xml that class c defines.
CreateXmlTag ==
    [AtomContent |-> QName(atom_ns, "content"),
     AtomCategory |-> QName(atom_ns, "category"),
     AtomGenerator |-> QName(atom_ns, "generator"),
     AtomLink |-> QName(atom_ns, "link"),
     AtomSource |-> QName(atom_ns, "source"),
     AtomEntry |-> QName(atom_ns, "entry"),
     AtomFeed |-> QName(atom_ns, "feed"),
     AppCategories |-> QName(app_ns, "categories"),
     AppService |-> QName(app_ns, "service"),
     ThrInReplyTo |-> QName(thr_ns, "in-reply-to")]

\* The default of the tag parameter of the create_root_xml that class c
\* defines.  (AppService defines one without self: see create_root_xml.)
CreateRootXmlTag ==
    [AtomEntry |-> QName(atom_ns, "entry"),
     AtomFeed |-> QName(atom_ns, "feed"),
     AppCategories |-> QName(app_ns, "categories")]

\* The class attribute standard_tag.
StandardTag ==
    [AmesPost |-> QName(ames_ns, "post"), AsocPost |-> QName(asoc_ns, "post"),
     AsocPeer |-> QName(asoc_ns, "peer"), AsocPeers |-> QName(asoc_ns, "peers"),
     AsocCertificate |-> QName(asoc_ns, "certificate"),
     AsocCertificates |-> QName(asoc_ns, "certificates"),
     AconfLink |-> QName(aconf_ns, "link"),
     AconfCertificate |-> QName(aconf_ns, "certificate"),
     AconfCertificates |-> QName(aconf_ns, "certificates")]

\* The entry of the first class of the __mro__ that has one in the table,
\* "" when none has.
RECURSIVE Lookup(_, _, _)
Lookup(table, mro, i) ==
    IF i > Len(mro) THEN ""
    ELSE IF mro[i] \in DOMAIN table THEN table[mro[i]]
    ELSE Lookup(table, mro, i + 1)

\* A variant of ResolveTag in which the default of the class wins over the
\* tag given.
ResolveTagDefaultFirst(defaults, cls, tag) ==
    IF Lookup(defaults, Mro(cls), 1) # "" THEN Lookup(defaults, Mro(cls), 1)
    ELSE IF tag # "" THEN tag
    ELSE Lookup(StandardTag, Mro(cls), 1)

\* The tag XMLObject.create_xml uses: the tag given, else the default of
\* the most derived create_xml, else standard_tag; "" when there is none
\* (tag = tag or self.standard_tag raises AttributeError).
ResolveTag(defaults, cls, tag) ==
    IF tag # "" THEN tag
    ELSE IF Lookup(defaults, Mro(cls), 1) # ""
    THEN Lookup(defaults, Mro(cls), 1)
    ELSE Lookup(StandardTag, Mro(cls), 1)

\* create_text_xml(text, parent, tag): parent with the new last child.
create_text_xml(text, parent, tag) ==
    [parent EXCEPT !.children =
        Append(@, Element(tag, NoAttrib,
                          IF Truthy(text) THEN Str(Unicode(text)) ELSE None,
                          <<>>, None))]

\* The outcome of statements run on an element: the exception that ended
\* them, if any, and the element as they left it.
Done(element) == [exc |-> "", val |-> element]

Failed(e, element) == [exc |-> e, val |-> element]

\* A variant of Attached that puts the new element before the children the
\* parent already has.
AttachedFirst(parent, r) ==
    [exc |-> r.exc, val |-> [parent EXCEPT !.children = <<r.val>> \o @]]

\* parent, once the element that SubElement appended to it is prepared.
Attached(parent, r) ==
    [exc |-> r.exc, val |-> [parent EXCEPT !.children = Append(@, r.val)]]

RECURSIVE prepare_xml(_, _, _)

\* self.create_xml(parent, tag) for its effect on parent.
create_xml(self, parent, tag) ==
    IF self.t # "obj" THEN Failed("AttributeError", parent)
    ELSE IF ResolveTag(CreateXmlTag, self.cls, tag) = ""
    THEN Failed("ValueError", parent)
    ELSE Attached(parent,
                  prepare_xml(self.cls, self,
                              NewElement(ResolveTag(CreateXmlTag, self.cls, tag))))

\* One statement of a prepare_xml of class c.
Exec(c, self, st, element) ==
    CASE st.op = "super" -> prepare_xml(Parent(c), self, element)
      [] st.op = "raise" -> Failed(st.exc, element)
      [] st.op = "attr" ->
            Done([element EXCEPT !.attrib = SetKw(@, st.key, st.value.s)])
      [] st.op = "text" -> Done([element EXCEPT !.text = st.value])
      [] st.op = "create_text_xml" ->
            Done(create_text_xml(st.text, element, st.tag))
      [] st.op = "create_xml" -> create_xml(st.item, element, st.tag)
      [] st.op = "append" ->
            Done([element EXCEPT !.children = Append(@, st.child)])

RECURSIVE RunSteps(_, _, _, _, _)

\* A variant of Continue in which a statement that raised does not end the
\* statements: those after it still run, and the exception is reported at
\* the end.
ContinueAfterError(c, self, steps, i, r) ==
    LET Reported(rest) ==
            [exc |-> IF r.exc # "" THEN r.exc ELSE rest.exc, val |-> rest.val]
    IN  Reported(RunSteps(c, self, steps, i + 1, r.val))

\* The statements after statement i, unless it raised.
Continue(c, self, steps, i, r) ==
    IF r.exc # "" THEN r ELSE RunSteps(c, self, steps, i + 1, r.val)

\* The statements from statement i on.
RunSteps(c, self, steps, i, element) ==
    IF i > Len(steps) THEN Done(element)
    ELSE Continue(c, self, steps, i, Exec(c, self, steps[i], element))

\* A variant of prepare_xml in which the first statement, the call of the
\* base prepare_xml, is moved behind the others.
prepare_xml_own_first(c, self, element) ==
    RunSteps(c, self,
             IF Steps(c, self) = <<>> THEN <<>>
             ELSE Tail(Steps(c, self)) \o <<Head(Steps(c, self))>>,
             1, element)

\* The prepare_xml that class c defines or inherits, on self and element.
prepare_xml(c, self, element) == RunSteps(c, self, Steps(c, self), 1, element)

\* What a call returns whose statements had the outcome r.
Returned(r) == IF r.exc # "" THEN Raise(r.exc) ELSE Ok(r.val)

\* self.create_root_xml(tag).  The create_root_xml of AppService has no
\* parameter self, and the name self in its body is not defined.
create_root_xml(self, tag) ==
    IF "AppService" \in {Mro(self.cls)[i] : i \in 1..Len(Mro(self.cls))}
    THEN Raise("NameError")
    ELSE IF ResolveTag(CreateRootXmlTag, self.cls, tag) = ""
    THEN Raise("ValueError")
    ELSE Returned(prepare_xml(self.cls, self,
                    NewElement(ResolveTag(CreateRootXmlTag, self.cls, tag))))

(***************************************************************************)
(* Parsing.  A document is the tree of its elements as they are written:   *)
(* each has a prefix ("" for none), a local name and the namespace         *)
(* declarations (xmlns, by prefix, "" for the default) of its start tag.   *)
(***************************************************************************)
\* xml_parse(source).getroot(): the parser resolves every element name to
\* "{uri}local" with the declarations in scope, and to the bare local name
\* when no namespace applies; a prefix that is not declared is an error.
xml_parse(source) ==
    LET Scope(d, scope) ==
            [p \in (DOMAIN d.xmlns) \cup (DOMAIN scope) |->
                IF p \in DOMAIN d.xmlns THEN d.xmlns[p] ELSE scope[p]]
        Tag(d, scope) ==
            IF d.prefix # "" THEN QName(scope[d.prefix], d.local)
            ELSE IF "" \in DOMAIN scope /\ scope[""] # ""
            THEN QName(scope[""], d.local)
            ELSE d.local
        RECURSIVE WellFormed(_, _)
        WellFormed(d, scope) ==
            /\ d.prefix = "" \/ d.prefix \in DOMAIN Scope(d, scope)
            /\ \A i \in 1..Len(d.children) :
                  WellFormed(d.children[i], Scope(d, scope))
        RECURSIVE Build(_, _)
        Build(d, scope) ==
            Element(Tag(d, Scope(d, scope)), d.attrib, d.text,
                    [i \in 1..Len(d.children) |->
                        Build(d.children[i], Scope(d, scope))],
                    None)
    IN  IF WellFormed(source, [xml |-> xml_ns])
        THEN Ok(Build(source, [xml |-> xml_ns]))
        ELSE Raise("ParseError")

\* cls.parse_from_xml(source, tag): tag = "" stands for the default None.
\* cls.standard_tag is looked up before the source is parsed, and a class
\* without one raises AttributeError.
parse_from_xml(cls, source, tag) ==
    LET Decoded(r) == IF r.exc # "" THEN Raise(r.exc) ELSE Ok(r.val)
        Root(expected, r) ==
            IF r.exc # "" THEN r
            ELSE IF r.val.tag # expected THEN Raise("ParseError")
            ELSE Decoded(from_xml(cls, cls, r.val, NoKw))
    IN  IF tag # "" THEN Root(tag, xml_parse(source))
        ELSE IF Lookup(StandardTag, Mro(cls), 1) = ""
        THEN Raise("AttributeError")
        ELSE Root(Lookup(StandardTag, Mro(cls), 1), xml_parse(source))

(***************************************************************************)
(* The link helpers of AtomMeta (repeated verbatim in AmesPost, AsocPost   *)
(* and AsocService).  self is an instance whose attribute links is a list  *)
(* of AtomLink instances.                                                  *)
(***************************************************************************)
\* for link in links[i..]: if link.rel == rel: return link.href
RECURSIVE FirstHrefFrom(_, _, _)
FirstHrefFrom(links, i, rel) ==
    IF i > Len(links) THEN None
    ELSE IF links[i].attrs.rel = rel THEN links[i].attrs.href
    ELSE FirstHrefFrom(links, i + 1, rel)

\* A variant of get_link that keeps looking and returns the last match.
get_link_last(self, rel) ==
    LET links == self.attrs.links.items
        hits == {i \in 1..Len(links) : links[i].attrs.rel = rel}
    IN  IF hits = {} THEN None
        ELSE links[CHOOSE i \in hits : \A j \in hits : i >= j].attrs.href

get_link(self, rel) == FirstHrefFrom(self.attrs.links.items, 1, rel)

\* [link.href for link in self.links if link.rel == rel]
RECURSIVE HrefsFrom(_, _, _)
HrefsFrom(links, i, rel) ==
    IF i > Len(links) THEN <<>>
    ELSE (IF links[i].attrs.rel = rel THEN <<links[i].attrs.href>> ELSE <<>>)
         \o HrefsFrom(links, i + 1, rel)

\* A variant of get_links that stops at the first match.
get_links_first_only(self, rel) ==
    LET all == HrefsFrom(self.attrs.links.items, 1, rel)
    IN  List(IF all = <<>> THEN <<>> ELSE <<Head(all)>>)

get_links(self, rel) == List(HrefsFrom(self.attrs.links.items, 1, rel))

\* The loop of get_link without the final return: falling off the end of a
\* Python function returns None.
get_first_link(self, rel) ==
    LET links == self.attrs.links.items
        hits == {i \in 1..Len(links) : links[i].attrs.rel = rel}
    IN  IF hits = {} THEN None
        ELSE links[CHOOSE i \in hits : \A j \in hits : i <= j].attrs.href

\* self.links = [link for link in self.links if link.rel != rel]
RECURSIVE LinksWithout(_, _, _)
LinksWithout(links, i, rel) ==
    IF i > Len(links) THEN <<>>
    ELSE (IF links[i].attrs.rel # rel THEN <<links[i]>> ELSE <<>>)
         \o LinksWithout(links, i + 1, rel)

\* A variant of remove_links that empties the list.
remove_links_all(self, rel) == [self EXCEPT !.attrs.links = List(<<>>)]

\* A variant of remove_links that moves the survivors out of order.
RECURSIVE Reversed(_)
Reversed(seq) ==
    IF seq = <<>> THEN <<>> ELSE Append(Reversed(Tail(seq)), Head(seq))

remove_links_reversed(self, rel) ==
    [self EXCEPT !.attrs.links = List(Reversed(LinksWithout(@.items, 1, rel)))]

remove_links(self, rel) ==
    [self EXCEPT !.attrs.links = List(LinksWithout(@.items, 1, rel))]

\* A variant of replace_link that keeps the links already there.
replace_link_keeping(self, rel, href) ==
    [self EXCEPT !.attrs.links =
        List(Append(@.items, New("AtomLink", [href |-> href, rel |-> rel]).val))]

\* A variant of replace_link that puts the new link first.
replace_link_front(self, rel, href) ==
    LET removed == remove_links(self, rel)
        link == New("AtomLink", [href |-> href, rel |-> rel]).val
    IN  [removed EXCEPT !.attrs.links = List(<<link>> \o @.items)]

\* self.remove_links(rel); self.links.append(AtomLink(href=href, rel=rel))
replace_link(self, rel, href) ==
    LET removed == remove_links(self, rel)
        link == New("AtomLink", [href |-> href, rel |-> rel]).val
    IN  [removed EXCEPT !.attrs.links = List(Append(@.items, link))]

(***************************************************************************)
(* Application code working on the links of a node it holds.               *)
(***************************************************************************)
Hrefs == {Str("a"), Str("b"), Str("c")}

NewHrefs == {Str("z")}

Rels == {Str("self"), Str("alt")}

\* The classes that carry the link helpers, each built by its constructor.
LinkNodes ==
    {New("AtomFeed", NoKw).val, New("AmesPost", NoKw).val,
     New("AsocService", [workspaces |-> List(<<>>)]).val}

Call(op, args, r) ==
    [op |-> op, args |-> args, exc |-> r.exc, val |-> r.val, called |-> <<>>]

NoCall == [op |-> "", args |-> <<>>, exc |-> "", val |-> None, called |-> <<>>]

LinksInit ==
    /\ node \in LinkNodes
    /\ elem = None
    /\ old = None
    /\ ret = NoCall

\* node.links.append(AtomLink(href=href, rel=rel))
AppendLink ==
    \E href \in Hrefs, rel \in Rels :
        /\ Len(node.attrs.links.items) < MaxLinks
        /\ node' = [node EXCEPT !.attrs.links = List(Append(@.items,
                        New("AtomLink", [href |-> href, rel |-> rel]).val))]
        /\ old' = node
        /\ ret' = Call("append", <<href, rel>>, Ok(None))
        /\ UNCHANGED elem

GetLink ==
    \E rel \in Rels :
        /\ ret' = Call("get_link", <<rel>>, Ok(get_link(node, rel)))
        /\ old' = node
        /\ UNCHANGED <<node, elem>>

GetLinks ==
    \E rel \in Rels :
        /\ ret' = Call("get_links", <<rel>>, Ok(get_links(node, rel)))
        /\ old' = node
        /\ UNCHANGED <<node, elem>>

GetFirstLink ==
    \E rel \in Rels :
        /\ ret' = Call("get_first_link", <<rel>>, Ok(get_first_link(node, rel)))
        /\ old' = node
        /\ UNCHANGED <<node, elem>>

ReplaceLink ==
    \E rel \in Rels, href \in NewHrefs :
        /\ node' = replace_link(node, rel, href)
        /\ old' = node
        /\ ret' = Call("replace_link", <<rel, href>>, Ok(None))
        /\ UNCHANGED elem

RemoveLinks ==
    \E rel \in Rels :
        /\ node' = remove_links(node, rel)
        /\ old' = node
        /\ ret' = Call("remove_links", <<rel>>, Ok(None))
        /\ UNCHANGED elem

LinksNext ==
    \/ AppendLink
    \/ GetLink
    \/ GetLinks
    \/ GetFirstLink
    \/ ReplaceLink
    \/ RemoveLinks

SpecLinks == LinksInit /\ [][LinksNext]_vars

(***************************************************************************)
(* A caller that holds a parsed element, and decodes it.  The element is   *)
(* put together child by child, as the parser does, before it is decoded.  *)
(***************************************************************************)
Leaf(tag, attrib, text) == Element(tag, attrib, text, <<>>, None)

Empty(tag) == Leaf(tag, NoAttrib, None)

DecodeInit ==
    /\ elem = Empty("root")
    /\ node = None
    /\ old = None
    /\ ret = NoCall

\* The parser appends the next child of the root: a recognized element
\* without attributes, text or children, one with content, or an unknown one.
AppendChild ==
    \E child \in
            {Empty(QName(atom_ns, "title")), Empty(QName(atom_ns, "updated")),
             Empty(QName(atom_ns, "entry")), Empty(QName(atom_ns, "source")),
             Empty(QName(atom_ns, "id")), Empty(QName(app_ns, "collection")),
             Leaf(QName(atom_ns, "title"), NoAttrib, Str("t")),
             Leaf(QName(atom_ns, "link"), [href |-> "a", rel |-> "self"], None),
             Empty("junk")} :
        /\ ret = NoCall
        /\ Len(elem.children) < MaxChildren
        /\ elem' = [elem EXCEPT !.children = Append(@, child)]
        /\ UNCHANGED <<node, old, ret>>

\* The parser reads the attributes of the root: one that no class knows,
\* alone or next to xml:lang.
SetAttributes ==
    \E attrib \in {[unknown |-> "1"],
                   [k \in {"unknown", QName(xml_ns, "lang")} |->
                       IF k = "unknown" THEN "1" ELSE "en"]} :
        /\ ret = NoCall
        /\ elem.attrib = NoAttrib /\ elem.children = <<>>
        /\ elem' = [elem EXCEPT !.attrib = attrib]
        /\ UNCHANGED <<node, old, ret>>

\* node = cls.from_xml(elem), and for some classes, with and without an id
\* parameter, also node = cls.from_xml(elem, id="k")
FromXml ==
    \E cls \in Classes, kw \in {NoKw, [id |-> Str("k")]} :
        LET r == from_xml(cls, cls, elem, kw)
        IN  /\ kw # NoKw =>
                  cls \in {"AtomEntry", "AtomFeed", "AppEntry", "AsocPost",
                           "AtomText", "ThrLink"}
            /\ ret = NoCall
            /\ ret' = [Call("from_xml", <<cls, kw>>, r) EXCEPT
                          !.called = r.trace]
            /\ node' = r.val
            /\ UNCHANGED <<elem, old>>

DecodeNext ==
    \/ SetAttributes
    \/ AppendChild
    \/ FromXml

SpecDecode == DecodeInit /\ [][DecodeNext]_vars

(***************************************************************************)
(* A caller that decodes a text construct: title, rights, summary,         *)
(* subtitle (AtomText), content (AtomContent) or generator.                *)
(***************************************************************************)
\* An Element is an object: the elements that the parser or the caller
\* created carry the identity of the object, and the same identity in two
\* places is the same object referred to from both.  The elements that an
\* encoding creates are new objects, found in one place only.
Identified(element, id) == [id |-> id] @@ element

\* v once the object with the identity has its text assigned: the
\* assignment shows wherever the object is referred to.
RECURSIVE WithText(_, _, _)
WithText(v, id, text) ==
    IF v.t = "obj"
    THEN [v EXCEPT !.attrs =
            [f \in DOMAIN v.attrs |-> WithText(v.attrs[f], id, text)]]
    ELSE IF v.t # "Element" THEN v
    ELSE [v EXCEPT
            !.text = IF "id" \in DOMAIN v /\ v.id = id THEN text ELSE @,
            !.children = [i \in 1..Len(v.children) |->
                             WithText(v.children[i], id, text)]]

\* The parser has read the start tag of a text construct; the caller has
\* encoded nothing yet.
TextInit ==
    /\ elem = Identified(Empty(QName(atom_ns, "title")), 1)
    /\ node = None
    /\ old = <<>>
    /\ ret = NoCall

\* The parser reads the type attribute.
SetType ==
    \E type \in {"text", "html", " HTML ", "xhtml", "application/xml"} :
        /\ ret = NoCall /\ node = None
        /\ elem.attrib = NoAttrib /\ elem.text = None /\ elem.children = <<>>
        /\ elem' = [elem EXCEPT !.attrib = [type |-> type]]
        /\ UNCHANGED <<node, old, ret>>

\* The parser reads the text before the first child.
SetText ==
    \E text \in {Str("hi"), Str(" a&b ")} :
        /\ ret = NoCall /\ node = None
        /\ elem.text = None /\ elem.children = <<>>
        /\ elem' = [elem EXCEPT !.text = text]
        /\ UNCHANGED <<node, old, ret>>

\* The parser appends the next child: inline markup, with the text that
\* follows it, or the div of an xhtml construct (or what AtomText.from_xml
\* takes for it).
AppendMarkup ==
    \E child \in {Element("b", NoAttrib, Str("x"), <<>>, Str(" y ")),
                  Element("br", NoAttrib, None, <<>>, None),
                  Element(QName(xhtml_ns, "div"), NoAttrib, Str("d"), <<>>,
                          None),
                  Element(QName(xhtml_ns, "dvi"), NoAttrib, Str("d"), <<>>,
                          None)} :
        /\ ret = NoCall /\ node = None
        /\ Len(elem.children) < MaxTextChildren
        /\ elem' = [elem EXCEPT !.children =
                        Append(@, Identified(child, Len(@) + 2))]
        /\ UNCHANGED <<node, old, ret>>

\* node = cls.from_xml(elem) for a class of text construct
TextFromXml ==
    \E cls \in {"AtomText", "AtomContent", "AtomGenerator"} :
        LET r == from_xml(cls, cls, elem, NoKw)
        IN  /\ ret = NoCall /\ node = None
            /\ ret' = Call("from_xml", <<cls>>, r)
            /\ node' = r.val
            /\ UNCHANGED <<elem, old>>

\* node = AtomText(type="xhtml", text=div) with a div the caller made
NewText ==
    /\ ret = NoCall /\ node = None
    /\ elem.attrib = NoAttrib /\ elem.text = None /\ elem.children = <<>>
    /\ node' = New("AtomText",
                   [type |-> Str("xhtml"),
                    text |-> Identified(Element(QName(xhtml_ns, "div"),
                                                NoAttrib, Str("c"), <<>>,
                                                None), 9)]).val
    /\ UNCHANGED <<elem, old, ret>>

\* node.create_xml(parent, tag) with a parent the caller just made; the
\* caller keeps every parent it encoded into.
TextCreateXml ==
    /\ node.t = "obj"
    /\ Len(old) < MaxParents
    /\ old' = Append(old,
                     create_xml(node,
                                Identified(NewElement("parent"), 10 + Len(old)),
                                "root").val)
    /\ ret' = Call("create_xml", <<"root">>,
                   IF create_xml(node, NewElement("parent"), "root").exc = ""
                   THEN Ok(old'[Len(old')].children[1])
                   ELSE Raise(create_xml(node, NewElement("parent"),
                                         "root").exc))
    /\ UNCHANGED <<node, elem>>

\* element.text = "m" for the source element or one of its children, after
\* the decoding; the call records the node as it was before.
SetSourceText ==
    \E id \in 1..(1 + Len(elem.children)) :
        /\ ret.op = "from_xml" /\ ret.exc = ""
        /\ ret' = Call("set_text", <<id>>, Ok(node))
        /\ elem' = WithText(elem, id, Str("m"))
        /\ node' = WithText(node, id, Str("m"))
        /\ old' = [i \in 1..Len(old) |-> WithText(old[i], id, Str("m"))]

TextNext ==
    \/ SetType
    \/ SetText
    \/ AppendMarkup
    \/ TextFromXml
    \/ NewText
    \/ TextCreateXml
    \/ SetSourceText

SpecText == TextInit /\ [][TextNext]_vars

(***************************************************************************)
(* A caller that encodes and decodes a date construct: updated or          *)
(* published.                                                              *)
(***************************************************************************)
\* The caller holds an empty date element and no node.
DateInit ==
    /\ elem = Empty(QName(atom_ns, "updated"))
    /\ node = None
    /\ old = <<>>
    /\ ret = NoCall

\* node = AtomDate(datetime=datetime(...)) with a naive time, a time in UTC
\* or a time at a fixed offset of up to a day less a minute either way.
NewDate ==
    \E day \in {<<1, 1, 1>>, <<2012, 2, 29>>, <<9999, 12, 31>>},
       time \in {<<0, 0, 0>>, <<3, 4, 5>>, <<23, 59, 59>>},
       microsecond \in {0, 250000},
       tz \in {NoTzInfo, TzInfoUTC}
                \cup {TzInfoFixedOffset(offset) :
                         offset \in {0 - 1439, 0 - 330, 0 - 59, 0, 59, 330, 1439}} :
        /\ ret = NoCall /\ node = None
        /\ node' = New("AtomDate",
                       [datetime |-> Datetime(day[1], day[2], day[3],
                                              time[1], time[2], time[3],
                                              microsecond, tz).val]).val
        /\ UNCHANGED <<elem, old, ret>>

\* The parser reads the text of the date element.
SetDateText ==
    \E text \in {"2012-02-29T03:04:05Z", "2012-02-29T03:04:05.25z",
                 "2012-02-29T03:04:05.250+05:30", "2012-02-29T03:04:05-05:30",
                 "2012-02-29T23:59:59-23:59", "2012-02-29T03:04:05+00:00",
                 "2012-02-29T03:04:05", "2012-02-29 03:04:05Z",
                 "2012-02-29T03:04:05Z and more", "2012-02-29T03:04:05+01:00:00",
                 " 2012-02-29T03:04:05Z", "yesterday", ""} :
        /\ ret = NoCall /\ node = None
        /\ elem.text = None
        /\ elem' = [elem EXCEPT !.text = Str(text)]
        /\ UNCHANGED <<node, old, ret>>

\* node.create_xml(parent, "updated") with a new parent; the caller keeps
\* the node and goes on with the element created.
DateCreateXml ==
    LET r == create_xml(node, NewElement("parent"), QName(atom_ns, "updated"))
    IN  /\ ret = NoCall /\ node.t = "obj"
        /\ ret' = Call("create_xml", <<QName(atom_ns, "updated")>>,
                       IF r.exc = "" THEN Ok(r.val.children[1]) ELSE Raise(r.exc))
        /\ elem' = IF r.exc = "" THEN r.val.children[1] ELSE elem
        /\ old' = <<node>>
        /\ UNCHANGED node

\* node = AtomDate.from_xml(elem), for the element that the parser read or
\* that the encoding created.
DateFromXml ==
    LET r == from_xml("AtomDate", "AtomDate", elem, NoKw)
    IN  /\ ret.op # "from_xml" /\ ret.exc = ""
        /\ ret.op = "" => node = None
        /\ ret' = Call("from_xml", <<"AtomDate">>, r)
        /\ node' = r.val
        /\ UNCHANGED <<elem, old>>

DateNext ==
    \/ NewDate
    \/ SetDateText
    \/ DateCreateXml
    \/ DateFromXml

SpecDate == DateInit /\ [][DateNext]_vars

(***************************************************************************)
(* A caller that decodes an element with repeated children: the authors,   *)
(* categories, contributors, links and entries of a feed, an entry or a    *)
(* source.                                                                 *)
(***************************************************************************)
OrderInit ==
    /\ elem = Empty(QName(atom_ns, "feed"))
    /\ node = None
    /\ old = <<>>
    /\ ret = NoCall

\* The parser appends the next child: one of two links, authors or entries
\* that differ, a contributor, a category, or a title, which is not
\* repeated.
AppendListChild ==
    \E child \in
            {Leaf(QName(atom_ns, "link"), [href |-> "a", rel |-> "self"], None),
             Leaf(QName(atom_ns, "link"), [href |-> "b", rel |-> "self"], None),
             Element(QName(atom_ns, "author"), NoAttrib, None,
                     <<Leaf(QName(atom_ns, "name"), NoAttrib, Str("x"))>>, None),
             Element(QName(atom_ns, "author"), NoAttrib, None,
                     <<Leaf(QName(atom_ns, "name"), NoAttrib, Str("y"))>>, None),
             Element(QName(atom_ns, "contributor"), NoAttrib, None,
                     <<Leaf(QName(atom_ns, "name"), NoAttrib, Str("x"))>>, None),
             Leaf(QName(atom_ns, "category"), [term |-> "t"], None),
             Element(QName(atom_ns, "entry"), NoAttrib, None,
                     <<Leaf(QName(atom_ns, "id"), NoAttrib, Str("1"))>>, None),
             Element(QName(atom_ns, "entry"), NoAttrib, None,
                     <<Leaf(QName(atom_ns, "id"), NoAttrib, Str("2"))>>, None),
             Leaf(QName(atom_ns, "title"), NoAttrib, Str("t"))} :
        /\ ret = NoCall
        /\ Len(elem.children) < MaxListChildren
        /\ elem' = [elem EXCEPT !.children = Append(@, child)]
        /\ UNCHANGED <<node, old, ret>>

\* node = cls.from_xml(elem)
OrderFromXml ==
    \E cls \in {"AtomFeed", "AtomEntry", "AtomSource"} :
        /\ ret = NoCall
        /\ ret' = Call("from_xml", <<cls>>, from_xml(cls, cls, elem, NoKw))
        /\ node' = ret'.val
        /\ UNCHANGED <<elem, old>>

OrderNext ==
    \/ AppendListChild
    \/ OrderFromXml

SpecOrder == OrderInit /\ [][OrderNext]_vars

(***************************************************************************)
(* A decode routine that asks its class for the decoder of a child.        *)
(***************************************************************************)
DispatchInit ==
    /\ elem \in
          {Empty("sub"), Leaf(QName(atom_ns, "title"), NoAttrib, Str("t")),
           Element(QName(atom_ns, "feed"), NoAttrib, None,
                   <<Empty(QName(atom_ns, "entry")),
                     Leaf(QName(atom_ns, "link"),
                          [href |-> "a", rel |-> "self"], None)>>,
                   None)}
    /\ node = None
    /\ old = None
    /\ ret = NoCall

\* cls.inner_from_xml(name, elem), for every name a table defines or a
\* decode routine asks for, and one more.
InnerFromXml ==
    \E cls \in Classes,
       name \in UNION {DOMAIN inner_factory(c) : c \in Classes}
                    \cup {"total", "in_reply_to", "in-reply-to", "nosuch"} :
        LET r == inner_from_xml(cls, name, elem)
        IN  /\ ret = NoCall
            /\ ret' = [op |-> "inner_from_xml", args |-> <<cls, name>>,
                       exc |-> r.exc, val |-> r.val, called |-> r.called]
            /\ node' = r.val
            /\ UNCHANGED <<elem, old>>

DispatchNext == InnerFromXml

SpecDispatch == DispatchInit /\ [][DispatchNext]_vars

(***************************************************************************)
(* A caller that reads a document, written with the prefixes its author    *)
(* chose, and decodes it with parse_from_xml.                              *)
(***************************************************************************)
\* The start tag of the root element has been written.
ParseInit ==
    /\ old \in
          {[prefix |-> r[1], local |-> r[2], xmlns |-> r[3],
            attrib |-> NoAttrib, text |-> None, children |-> <<>>] :
             r \in {<<"", "entry", [p \in {""} |-> atom_ns]>>,
                    <<"atom", "entry", [atom |-> atom_ns]>>,
                    <<"", "entry", NoAttrib>>,
                    <<"", "feed", [p \in {""} |-> atom_ns]>>,
                    <<"asoc", "post", [asoc |-> asoc_ns, atom |-> atom_ns]>>}}
    /\ elem = None
    /\ node = None
    /\ ret = NoCall

\* The author writes the next child of the root: a title under the default
\* namespace, a title under a prefix of its own bound to the Atom namespace,
\* a title of another namespace, or an id under the prefix atom, which only
\* some roots declare.
WriteChild ==
    \E c \in {<<"", "title", NoAttrib, "t">>,
              <<"n", "title", [n |-> atom_ns], "t">>,
              <<"x", "title", [x |-> "http://other/"], "o">>,
              <<"atom", "id", NoAttrib, "i">>} :
        /\ ret = NoCall
        /\ Len(old.children) < MaxDocChildren
        /\ old' = [old EXCEPT !.children =
                      Append(@, [prefix |-> c[1], local |-> c[2], xmlns |-> c[3],
                                 attrib |-> NoAttrib, text |-> Str(c[4]),
                                 children |-> <<>>])]
        /\ UNCHANGED <<node, elem, ret>>

\* node = cls.parse_from_xml(source, tag)
ParseFromXml ==
    \E cls \in {"AtomEntry", "AtomFeed", "AtomSource", "AppService",
                "AsocPost", "AmesPost", "AsocPeers"},
       tag \in {"", QName(atom_ns, "entry"), QName(atom_ns, "feed"),
                QName(asoc_ns, "post")} :
        /\ ret = NoCall
        /\ ret' = Call("parse_from_xml", <<cls, tag>>,
                       parse_from_xml(cls, old, tag))
        /\ node' = ret'.val
        /\ UNCHANGED <<elem, old>>

ParseNext ==
    \/ WriteChild
    \/ ParseFromXml

SpecParse == ParseInit /\ [][ParseNext]_vars

(***************************************************************************)
(* A caller that holds a populated node, may unset some of its fields,     *)
(* encodes it, and decodes the element that the encoding returned.         *)
(***************************************************************************)
\* The populated nodes the caller builds with the constructors: every field
\* of every node is set.
Full ==
    LET Built(cls, kw) == New(cls, kw).val
        Common == [base |-> Str("http://b/"), lang |-> Str("en")]
        Text(type, text) ==
            Built("AtomText", [type |-> Str(type), text |-> text] @@ Common)
        Person ==
            Built("AtomPerson",
                  [name |-> Str("n"), uri |-> Str("u"), email |-> Str("e")]
                      @@ Common)
        Date(dt) == Built("AtomDate", [datetime |-> dt.val] @@ Common)
        Link(href, rel) ==
            Built("AtomLink",
                  [href |-> Str(href), rel |-> Str(rel),
                   type |-> Str("text/html"), hreflang |-> Str("en"),
                   title |-> Str("ti"), length |-> Str("1")] @@ Common)
        Meta ==
            [authors |-> List(<<Person>>),
             categories |->
                List(<<Built("AtomCategory",
                             [term |-> Str("t"), scheme |-> Str("s"),
                              label |-> Str("l")] @@ Common)>>),
             contributors |-> List(<<Person>>), id |-> Str("urn:1"),
             links |-> List(<<Link("a", "self"), Link("b", "alt")>>),
             rights |-> Text("text", Str("r")),
             title |-> Text("html", Str("<b>t</b>")),
             updated |-> Date(Datetime(2012, 2, 29, 3, 4, 5, 0, TzInfoUTC))]
                @@ Common
        SourceKw ==
            [generator |->
                Built("AtomGenerator",
                      [text |-> Str("g"), uri |-> Str("u"),
                       version |-> Str("1")] @@ Common),
             icon |-> Str("i"), logo |-> Str("l"),
             subtitle |-> Text("text", Str("s"))] @@ Meta
        Entry ==
            Built("AtomEntry",
                  [content |->
                      Built("AtomContent",
                            [type |-> Str("text"), src |-> None,
                             content |-> Str("c")] @@ Common),
                   published |->
                      Date(Datetime(2011, 12, 31, 23, 59, 59, 250000,
                                    TzInfoFixedOffset(330))),
                   source |-> Built("AtomSource", SourceKw),
                   summary |-> Text("text", Str("su"))] @@ Meta)
        Workspace ==
            Built("AppWorkspace", [title |-> Text("text", Str("w"))] @@ Common)
        Collection(href) ==
            Built("AppCollection",
                  [href |-> Str(href), title |-> Text("text", Str("t"))]
                      @@ Common)
        \* workspace.collections = [...]: no constructor sets the attribute.
        Holding(workspace, collections) ==
            [workspace EXCEPT
                !.attrs = [collections |-> List(collections)] @@ @]
    IN  [text |-> Text("text", Str("hi")),
         html |-> Text("html", Str("<i>hi</i>")),
         xhtml |-> Text("xhtml", Element(QName(xhtml_ns, "div"), NoAttrib,
                                         Str("x"), <<>>, None)),
         source |-> Built("AtomSource", SourceKw),
         entry |-> Entry,
         feed |->
            Built("AtomFeed",
                  [entries |->
                      List(<<Entry, [Entry EXCEPT !.attrs.id = Str("urn:2")]>>)]
                      @@ SourceKw),
         date |-> Date(Datetime(2012, 2, 29, 3, 4, 5, 0, TzInfoUTC)),
         collection |-> Collection("c"),
         workspace |-> Workspace,
         service |->
            Built("AppService", [workspaces |-> List(<<Workspace>>)] @@ Common),
         hosting |->
            Built("AppService",
                  [workspaces |->
                      List(<<Holding(Workspace,
                                     <<Collection("c"), Collection("d")>>),
                             Holding(Workspace, <<>>)>>)] @@ Common)]

\* The fully populated nodes of the Atom core.
FullAtomNodes ==
    {Full.entry, Full.feed, Full.source, Full.text, Full.html, Full.xhtml}

EncodeInit ==
    /\ node \in {Full[kind] : kind \in DOMAIN Full}
    /\ elem = Element("parent", NoAttrib, None, <<Empty("first")>>, None)
    /\ old = None
    /\ ret = NoCall

\* node.<field> = None, or [] for a list
UnsetField ==
    \E field \in DOMAIN node.attrs :
        /\ ret = NoCall
        /\ node.attrs[field] \notin {None, List(<<>>), Tuple(<<>>)}
        /\ Cardinality({f \in DOMAIN node.attrs :
                            \/ node.attrs[f] \in {None, List(<<>>)}
                            \/ /\ node.attrs[f].t = "obj"
                               /\ node.attrs[f].cls = "AtomDate"
                               /\ node.attrs[f].attrs.datetime = None})
              < MaxUnset
        /\ node' = [node EXCEPT !.attrs[field] =
                       IF @.t \in {"list", "tuple"} THEN List(<<>>) ELSE None]
        /\ UNCHANGED <<elem, old, ret>>

\* node.<field>.datetime = None, for a field that holds a date
UnsetDatetime ==
    \E field \in DOMAIN node.attrs :
        /\ ret = NoCall
        /\ node.attrs[field].t = "obj"
        /\ node.attrs[field].cls = "AtomDate"
        /\ node.attrs[field].attrs.datetime # None
        /\ Cardinality({f \in DOMAIN node.attrs :
                            \/ node.attrs[f] \in {None, List(<<>>)}
                            \/ /\ node.attrs[f].t = "obj"
                               /\ node.attrs[f].cls = "AtomDate"
                               /\ node.attrs[f].attrs.datetime = None})
              < MaxUnset
        /\ node' = [node EXCEPT !.attrs[field].attrs.datetime = None]
        /\ UNCHANGED <<elem, old, ret>>

\* self after create_xml or create_root_xml with outcome r: no statement of
\* theirs or of a prepare_xml assigns to an attribute of self or changes
\* one of its lists, whether the call returns or raises.
SelfAfter(self, r) == self

\* elem = node.create_root_xml(tag)
CreateRootXml ==
    \E tag \in {"", "root"} :
        /\ ret = NoCall
        /\ ret' = Call("create_root_xml", <<tag>>, create_root_xml(node, tag))
        /\ elem' = ret'.val
        /\ node' = SelfAfter(node, create_root_xml(node, tag))
        /\ UNCHANGED old

\* node.create_xml(elem, tag), as the first encoding or after a field was
\* set
CreateXml ==
    \E tag \in {"", "root"} :
        /\ ret = NoCall \/ (ret.op = "set_field" /\ tag = "root")
        /\ old' = elem
        /\ elem' = create_xml(node, elem, tag).val
        /\ ret' = Call("create_xml", <<tag>>,
                       IF create_xml(node, elem, tag).exc = ""
                       THEN Ok(elem'.children[Len(elem'.children)])
                       ELSE Raise(create_xml(node, elem, tag).exc))
        /\ node' = SelfAfter(node, create_xml(node, elem, tag))

\* After a first encoding raised: node.<field> = value for the one field
\* that is unset, with the value that it has in a populated node, and
\* elem = Element("parent"), a new parent for the second encoding.
SetField ==
    \E kind \in DOMAIN Full, field \in DOMAIN node.attrs :
        /\ ret.op \in {"create_xml", "create_root_xml"} /\ ret.exc # ""
        /\ old # NewElement("parent")
        /\ Full[kind].cls = node.cls
        /\ IF node.attrs[field].t = "obj"
           THEN /\ node.attrs[field].cls = "AtomDate"
                /\ node.attrs[field].attrs.datetime = None
           ELSE node.attrs[field] \in {None, List(<<>>)}
        /\ node # Full[kind]
        /\ [node EXCEPT !.attrs[field] = Full[kind].attrs[field]] = Full[kind]
        /\ node' = Full[kind]
        /\ elem' = NewElement("parent")
        /\ ret' = Call("set_field", <<field>>, Ok(None))
        /\ UNCHANGED old

\* type(node).from_xml(elem) on the element that create_root_xml returned
DecodeEncoded ==
    /\ ret.op = "create_root_xml" /\ ret.exc = ""
    /\ ret' = Call("from_xml", <<node.cls>>,
                   from_xml(node.cls, node.cls, elem, NoKw))
    /\ UNCHANGED <<node, elem, old>>

EncodeNext ==
    \/ UnsetField
    \/ UnsetDatetime
    \/ CreateRootXml
    \/ CreateXml
    \/ SetField
    \/ DecodeEncoded

SpecEncode == EncodeInit /\ [][EncodeNext]_vars

(***************************************************************************)
(* Properties of the link helpers.                                         *)
(***************************************************************************)
\* The (href, rel) pairs of a list of links, in list order.
LinkPairs(links) ==
    [i \in 1..Len(links) |-> <<links[i].attrs.href.s, links[i].attrs.rel.s>>]

\* The links of a list whose rel is, or is not, rel.
Matching(links, rel) == SelectSeq(links, LAMBDA l : l.attrs.rel = rel)

NotMatching(links, rel) == SelectSeq(links, LAMBDA l : l.attrs.rel # rel)

HrefsOf(links) == [i \in 1..Len(links) |-> links[i].attrs.href]

ScenarioLinks == <<<<"a", "self">>, <<"b", "alt">>, <<"c", "self">>>>

\* C6: get_link(rel) and get_first_link(rel) both return the href of the
\* first link, in list order, whose rel equals rel, and None when no link
\* matches; the two agree on every links list and every rel.
C6_FirstLink ==
    /\ ret.op \in {"get_link", "get_first_link"} =>
          LET m == Matching(old.attrs.links.items, ret.args[1])
          IN  ret.val = IF m = <<>> THEN None ELSE Head(m).attrs.href
    /\ \A rel \in Rels : get_link(node, rel) = get_first_link(node, rel)

\* C6 witness: get_first_link answered on a list with two matching links, the
\* first of them behind a link of another rel.
C6_Witness ==
    /\ ret.op = "get_first_link"
    /\ ret.val # None
    /\ Len(Matching(old.attrs.links.items, ret.args[1])) = 2
    /\ old.attrs.links.items[1].attrs.rel # ret.args[1]
    /\ Matching(old.attrs.links.items, ret.args[1])[2].attrs.href # ret.val

\* C7: get_links(rel) returns exactly the hrefs of all links whose rel equals
\* rel, in list order, duplicates kept; on [(a,self),(b,alt),(c,self)]
\* get_links("self") is [a, c]; it is the empty list when nothing matches.
C7_GetLinks ==
    /\ ret.op = "get_links" =>
          ret.val = List(HrefsOf(Matching(old.attrs.links.items, ret.args[1])))
    /\ (/\ ret.op = "get_links"
        /\ LinkPairs(old.attrs.links.items) = ScenarioLinks
        /\ ret.args[1] = Str("self")) => ret.val = List(<<Str("a"), Str("c")>>)

\* C7 witness: get_links("self") answered on the scenario list.
C7_Witness ==
    /\ ret.op = "get_links"
    /\ LinkPairs(old.attrs.links.items) = ScenarioLinks
    /\ ret.args[1] = Str("self")
    /\ ret.val = List(<<Str("a"), Str("c")>>)

\* C8: replace_link(rel, href) leaves the links list equal to the original
\* links whose rel differs from rel, in their original order, followed by
\* exactly one new link with that rel and href; on the scenario list
\* replace_link("self", "z") yields [(b,alt),(z,self)].
C8_ReplaceLink ==
    ret.op = "replace_link" =>
        LET before == old.attrs.links.items
            after == node.attrs.links.items
            rel == ret.args[1]
            href == ret.args[2]
        IN  /\ Len(after) = Len(NotMatching(before, rel)) + 1
            /\ SubSeq(after, 1, Len(after) - 1) = NotMatching(before, rel)
            /\ after[Len(after)].attrs.rel = rel
            /\ after[Len(after)].attrs.href = href
            /\ after[Len(after)].cls = "AtomLink"
            /\ Len(Matching(after, rel)) = 1
            /\ (LinkPairs(before) = ScenarioLinks /\ rel = Str("self")
                   /\ href = Str("z"))
                  => LinkPairs(after) = <<<<"b", "alt">>, <<"z", "self">>>>

\* C8 witness: replace_link("self", "z") ran on the scenario list.
C8_Witness ==
    /\ ret.op = "replace_link"
    /\ LinkPairs(old.attrs.links.items) = ScenarioLinks
    /\ ret.args = <<Str("self"), Str("z")>>
    /\ LinkPairs(node.attrs.links.items) = <<<<"b", "alt">>, <<"z", "self">>>>

\* C9: remove_links(rel) leaves the links list equal to the original list
\* with every link whose rel equals rel removed, survivors in their original
\* order; on the scenario list remove_links("alt") yields
\* [(a,self),(c,self)]; when no link matches the content is unchanged.
C9_RemoveLinks ==
    ret.op = "remove_links" =>
        LET before == old.attrs.links.items
            after == node.attrs.links.items
            rel == ret.args[1]
        IN  /\ after = NotMatching(before, rel)
            /\ (Matching(before, rel) = <<>>) => after = before
            /\ (LinkPairs(before) = ScenarioLinks /\ rel = Str("alt"))
                  => LinkPairs(after) = <<<<"a", "self">>, <<"c", "self">>>>

\* C9 witness: remove_links("alt") ran on the scenario list.
C9_Witness ==
    /\ ret.op = "remove_links"
    /\ LinkPairs(old.attrs.links.items) = ScenarioLinks
    /\ ret.args = <<Str("alt")>>
    /\ LinkPairs(node.attrs.links.items) = <<<<"a", "self">>, <<"c", "self">>>>


(***************************************************************************)
(* Properties of decoding.                                                 *)
(***************************************************************************)
\* The classes of the __mro__ of cls, by position, whose own table has name.
Handlers(cls, name) ==
    {i \in 1..Len(Mro(cls)) : HasFactory(Mro(cls)[i], name)}

\* The table entry inner_from_xml is to use: that of the first such class.
Handler(cls, name) ==
    inner_factory(Mro(cls)[CHOOSE i \in Handlers(cls, name) :
                               \A j \in Handlers(cls, name) : i <= j])[name]

\* C5: inner_from_xml(name, sub) on a class walks the class's ancestors from
\* the most derived to the least derived, passes over the ancestors whose
\* own dispatch table lacks the name, and returns what the first table entry
\* found returns for sub, invoking that factory and no other; when no
\* ancestor's table has the name it raises KeyError and invokes no factory.
C5_Dispatch ==
    ret.op = "inner_from_xml" =>
        IF Handlers(ret.args[1], ret.args[2]) = {}
        THEN ret.exc = "KeyError" /\ ret.called = <<>>
        ELSE /\ ret.called = <<Handler(ret.args[1], ret.args[2])>>
             /\ [exc |-> ret.exc, val |-> ret.val]
                    = CallFactory(Handler(ret.args[1], ret.args[2]), elem)

\* C5 happens: AppFeed and its ancestor AtomFeed both have "entry", and the
\* child is decoded by the entry of AppFeed, as an AppEntry.
C5_Witness ==
    /\ ret.op = "inner_from_xml"
    /\ ret.args = <<"AppFeed", "entry">>
    /\ HasFactory("AtomFeed", "entry")
    /\ ret.called = <<[kind |-> "from_xml", cls |-> "AppEntry"]>>
    /\ ret.exc = ""
    /\ ret.val.cls = "AppEntry"

\* The children of an element that have the tag.
ChildrenTagged(element, tag) ==
    {i \in 1..Len(element.children) : element.children[i].tag = tag}

\* C4: decoding an element with a subtype that overrides a child's decoder
\* (AppFeed for entry, AppEntry for source) yields a node in which every
\* such child was decoded by the subtype's decoder (AppEntry, AppSource)
\* and none by the ancestor's (AtomEntry, AtomSource).
C4_SubtypeDecoder ==
    /\ (ret.op = "from_xml" /\ ret.args = <<"AppFeed", NoKw>>) =>
          /\ ret.exc = ""
          /\ Len(ret.val.attrs.entries.items)
                = Cardinality(ChildrenTagged(elem, QName(atom_ns, "entry")))
          /\ \A i \in 1..Len(ret.val.attrs.entries.items) :
                ret.val.attrs.entries.items[i].cls = "AppEntry"
    /\ (/\ ret.op = "from_xml" /\ ret.args = <<"AppEntry", NoKw>>
        /\ ChildrenTagged(elem, QName(atom_ns, "source")) # {}) =>
          /\ ret.exc = ""
          /\ ret.val.attrs.source.cls = "AppSource"

\* An element without attributes, text or children.
IsEmpty(element) ==
    element.attrib = NoAttrib /\ element.text = None /\ element.children = <<>>

\* C2: decoding, with any class of the vocabulary, an element in which
\* every optional attribute, child and text is missing (recognized children
\* that are present without text included) returns a node and never raises.
C2_Generous ==
    (/\ ret.op = "from_xml" /\ ret.args[2] = NoKw
     /\ elem.attrib = NoAttrib /\ elem.text = None
     /\ \A i \in 1..Len(elem.children) : IsEmpty(elem.children[i])) =>
        ret.exc = "" /\ ret.val.t = "obj"

\* The text before the first child, "" when there is none.
DirectText(element) == IF element.text = None THEN "" ELSE element.text.s

\* C10: decoding a text construct whose type is text, html or absent
\* yields, white space at both ends aside, the element's direct text
\* followed by the serialized form of every child in document order,
\* whether or not there is direct text and whether or not there are
\* children.
C10_Flatten ==
    (/\ ret.op = "from_xml" /\ ret.args = <<"AtomText">>
     /\ elem.attrib \in {NoAttrib, [type |-> "text"], [type |-> "html"]}) =>
        /\ ret.exc = ""
        /\ ret.val.attrs.text
              = Str(Strip(DirectText(elem) \o JoinChildren(elem.children, 1)))


(***************************************************************************)
(* Properties of encoding.                                                 *)
(***************************************************************************)
\* C1: for every fully populated, valid node N of the Atom core, encoding N
\* returns an element, and decoding that element returns a node equal to N
\* field for field, the published field and the type and text of every
\* text construct included.
C1_RoundTrip ==
    /\ (ret.op = "create_root_xml" /\ ret.args = <<"root">>
            /\ node \in FullAtomNodes) => ret.exc = ""
    /\ (ret.op = "from_xml" /\ node \in FullAtomNodes) =>
            ret.exc = "" /\ ret.val = node

\* The node has a field unset that the vocabulary requires.
RequiredUnset(self) ==
    \/ self.cls = "AtomEntry" /\ \E f \in {"id", "title", "updated"} :
                                     self.attrs[f] = None
    \/ self.cls = "AtomDate" /\ self.attrs.datetime = None
    \/ self.cls = "AppCollection" /\ \E f \in {"href", "title"} :
                                         self.attrs[f] = None
    \/ self.cls = "AppWorkspace" /\ self.attrs.title = None
    \/ self.cls = "AppService" /\ self.attrs.workspaces = List(<<>>)

\* C3: encoding a node that has a vocabulary-required field unset (id,
\* title or updated of an AtomEntry, datetime of an AtomDate, href or title
\* of an AppCollection, title of an AppWorkspace, the workspaces of an
\* AppService) raises IncompleteObjectError and returns no element.
C3_RequiredFields ==
    (/\ ret.op = "create_root_xml" /\ ret.args = <<"root">>
     /\ RequiredUnset(node)) =>
        ret.exc = "IncompleteObjectError" /\ ret.val = None

\* C11: decoding a text construct (AtomText or AtomContent) of type xhtml
\* yields one element tagged as the div of the XHTML namespace: the only
\* child of the source element when that child is already such a div, and
\* otherwise a new div that holds the text and the children of the source
\* element.
C11_Xhtml ==
    (/\ ret.op = "from_xml" /\ ret.args[1] \in {"AtomText", "AtomContent"}
     /\ elem.attrib = [type |-> "xhtml"]) =>
        /\ ret.exc = ""
        /\ ret.val.attrs[IF ret.args[1] = "AtomText" THEN "text" ELSE "content"]
              = IF /\ Len(elem.children) = 1
                   /\ elem.children[1].tag = QName(xhtml_ns, "div")
                THEN elem.children[1]
                ELSE Element(QName(xhtml_ns, "div"), NoAttrib, elem.text,
                             elem.children, None)

(***************************************************************************)
(* Properties of parsing.                                                  *)
(***************************************************************************)
\* The namespace URI of a written element, "" when it has none, given the
\* declarations in scope outside it.
NamespaceOf(d, scope) ==
    IF d.prefix # ""
    THEN IF d.prefix \in DOMAIN d.xmlns THEN d.xmlns[d.prefix]
         ELSE scope[d.prefix]
    ELSE IF "" \in DOMAIN d.xmlns THEN d.xmlns[""]
    ELSE IF "" \in DOMAIN scope THEN scope[""]
    ELSE ""

\* The same document with every element written another way: under the
\* prefix p, declared on the element itself, or (p = "") under a default
\* namespace declared on the element itself.
RECURSIVE Respelled(_, _, _)
Respelled(d, scope, p) ==
    [prefix |-> IF NamespaceOf(d, scope) = "" THEN "" ELSE p,
     local |-> d.local,
     xmlns |-> IF p # "" /\ NamespaceOf(d, scope) = "" THEN NoAttrib
               ELSE [k \in {p} |-> NamespaceOf(d, scope)],
     attrib |-> d.attrib, text |-> d.text,
     children |->
        [i \in 1..Len(d.children) |->
            Respelled(d.children[i],
                      [k \in (DOMAIN d.xmlns) \cup (DOMAIN scope) |->
                          IF k \in DOMAIN d.xmlns THEN d.xmlns[k] ELSE scope[k]],
                      p)]]

\* The children of the root, from child i on, whose namespace is one of
\* the vocabulary's.
RECURSIVE VocabularyChildren(_, _)
VocabularyChildren(d, i) ==
    IF i > Len(d.children) THEN <<>>
    ELSE IF \E j \in 1..Len(Registered) :
                Registered[j].ns = NamespaceOf(d.children[i], d.xmlns)
    THEN <<d.children[i]>> \o VocabularyChildren(d, i + 1)
    ELSE VocabularyChildren(d, i + 1)

\* C12: child matching during decode goes by namespace URI and local name
\* only: a document decodes to the same result however the prefixes of its
\* elements are written (another prefix, or a default namespace and no
\* prefix), and a child with the local name of a recognized child but a
\* namespace URI outside the vocabulary is never matched, so the result is
\* the same as without that child.
C12_NamespaceEquality ==
    (ret.op = "parse_from_xml" /\ xml_parse(old).exc = "") =>
        /\ \A p \in {"", "q"} :
              parse_from_xml(ret.args[1], Respelled(old, NoAttrib, p), ret.args[2])
                  = [exc |-> ret.exc, val |-> ret.val]
        /\ parse_from_xml(ret.args[1],
                          [old EXCEPT !.children = VocabularyChildren(old, 1)],
                          ret.args[2])
              = [exc |-> ret.exc, val |-> ret.val]

\* C12 happens: an entry written as atom:entry, with a title under another
\* prefix of the Atom namespace and a title of a foreign namespace, decodes
\* to an entry with the first title.
C12_Witness ==
    /\ ret.op = "parse_from_xml"
    /\ ret.args = <<"AtomEntry", QName(atom_ns, "entry")>>
    /\ old.prefix = "atom" /\ Len(old.children) = 2
    /\ old.children[1].prefix = "n" /\ old.children[2].prefix = "x"
    /\ ret.exc = ""
    /\ ret.val.attrs.title.attrs.text = Str("t")

\* The tag of the root element of a document of the class: its
\* standard_tag, or the tag its create_xml gives its element by default.
DocumentTag(cls) ==
    IF Lookup(StandardTag, Mro(cls), 1) # ""
    THEN Lookup(StandardTag, Mro(cls), 1)
    ELSE Lookup(CreateXmlTag, Mro(cls), 1)

\* C16: parse_from_xml on a document class without an explicit tag expects
\* the class's standard tag as the name of the root: when the root of the
\* parsed document has another name it raises ParseError and returns no
\* node, and when it has that name it returns what decoding the root with
\* the class returns.
C16_ParseFromXml ==
    (ret.op = "parse_from_xml" /\ ret.args[2] = "" /\ xml_parse(old).exc = "") =>
        IF xml_parse(old).val.tag # DocumentTag(ret.args[1])
        THEN ret.exc = "ParseError" /\ ret.val = None
        ELSE /\ ret.exc = from_xml(ret.args[1], ret.args[1],
                                   xml_parse(old).val, NoKw).exc
             /\ ret.val = from_xml(ret.args[1], ret.args[1],
                                   xml_parse(old).val, NoKw).val

(***************************************************************************)
(* Properties of decoding with unknown content.                            *)
(***************************************************************************)
\* The tags that the child loops of the from_xml stages of cls recognize.
KnownTags(cls) ==
    UNION {{Arms(Mro(cls)[k])[i].tag : i \in 1..Len(Arms(Mro(cls)[k]))} :
              k \in 1..Len(Mro(cls))}

\* The attributes that the from_xml stages of cls read.
KnownAttributes(cls) ==
    UNION {{AttrFields(Mro(cls)[k])[f] : f \in DOMAIN AttrFields(Mro(cls)[k])} :
              k \in 1..Len(Mro(cls))}

\* The children of the element, from child i on, that cls recognizes.
RECURSIVE KnownChildren(_, _, _)
KnownChildren(cls, element, i) ==
    IF i > Len(element.children) THEN <<>>
    ELSE IF element.children[i].tag \in KnownTags(cls)
    THEN <<element.children[i]>> \o KnownChildren(cls, element, i + 1)
    ELSE KnownChildren(cls, element, i + 1)

\* The element without the attributes and children that cls does not know.
Cleaned(cls, element) ==
    [element EXCEPT
        !.attrib = [k \in (DOMAIN @) \cap KnownAttributes(cls) |-> @[k]],
        !.children = KnownChildren(cls, element, 1)]

\* C13: decoding, with a class that decodes children, an element that has
\* children of unknown name among the recognized ones, and unknown
\* attributes, has the outcome of decoding the element with the unknown
\* children and attributes removed: the same node, and no error that the
\* element without them does not raise.
C13_UnknownContent ==
    (ret.op = "from_xml" /\ KnownTags(ret.args[1]) # {}) =>
        [exc |-> ret.exc, val |-> ret.val]
            = Untraced(from_xml(ret.args[1], ret.args[1],
                                Cleaned(ret.args[1], elem), ret.args[2]))

\* C13 happens: an entry with an unknown attribute and an unknown child
\* before its title decodes, without error, to an entry with that title.
C13_Witness ==
    /\ ret.op = "from_xml" /\ ret.args = <<"AtomEntry", NoKw>>
    /\ "unknown" \in DOMAIN elem.attrib
    /\ Len(elem.children) = 2
    /\ elem.children[1].tag = "junk"
    /\ elem.children[2].tag = QName(atom_ns, "title")
    /\ Cleaned("AtomEntry", elem) # elem
    /\ ret.exc = ""
    /\ ret.val.attrs.title.attrs.text = Str("t")
    /\ ret.val.attrs.lang = Str("en")

(***************************************************************************)
(* Properties of the encoded element.                                      *)
(***************************************************************************)
\* The tag under which a prepare_xml emits the items of a list-valued
\* field of a node of the class.
ListFieldTags(cls) ==
    CASE cls \in {"AtomSource", "AtomEntry"} ->
            [authors |-> QName(atom_ns, "author"),
             categories |-> QName(atom_ns, "category"),
             contributors |-> QName(atom_ns, "contributor"),
             links |-> QName(atom_ns, "link")]
      [] cls = "AtomFeed" ->
            [authors |-> QName(atom_ns, "author"),
             categories |-> QName(atom_ns, "category"),
             contributors |-> QName(atom_ns, "contributor"),
             links |-> QName(atom_ns, "link"),
             entries |-> QName(atom_ns, "entry")]
      [] cls = "AppCollection" ->
            [accept |-> QName(app_ns, "accept"),
             categories |-> QName(app_ns, "categories")]
      [] cls = "AppWorkspace" -> [collections |-> QName(app_ns, "collection")]
      [] cls = "AppService" -> [workspaces |-> QName(app_ns, "workspace")]
      [] OTHER -> NoAttrib

\* The children of the element, from child i on, that have the tag.
RECURSIVE ChildrenWithTag(_, _, _)
ChildrenWithTag(element, tag, i) ==
    IF i > Len(element.children) THEN <<>>
    ELSE IF element.children[i].tag = tag
    THEN <<element.children[i]>> \o ChildrenWithTag(element, tag, i + 1)
    ELSE ChildrenWithTag(element, tag, i + 1)

\* The element that encoding the item alone, under the tag, produces.
EncodedAlone(item, tag) == create_xml(item, NewElement("alone"), tag).val.children[1]

\* The element that the last encoding call returned.
Encoded == IF ret.op = "create_xml" THEN elem.children[Len(elem.children)] ELSE elem

\* C14: an encoding that returns has emitted, for every list-valued field of
\* the node, one child per item of the list, in the order of the list: the
\* k-th child with the tag of the field is the encoding of the k-th item.
C14_ListOrder ==
    (ret.op \in {"create_xml", "create_root_xml"} /\ ret.exc = "") =>
        \A f \in (DOMAIN ListFieldTags(node.cls)) \cap (DOMAIN node.attrs) :
            ChildrenWithTag(Encoded, ListFieldTags(node.cls)[f], 1)
                = [k \in 1..Len(node.attrs[f].items) |->
                      EncodedAlone(node.attrs[f].items[k],
                                   ListFieldTags(node.cls)[f])]

\* C14 happens: a feed with two different entries and two different links
\* is encoded, each pair in the order of its list.
C14_Witness ==
    /\ ret.op = "create_root_xml" /\ ret.exc = ""
    /\ node.cls = "AtomFeed"
    /\ Len(node.attrs.entries.items) = 2
    /\ node.attrs.entries.items[1] # node.attrs.entries.items[2]
    /\ Len(node.attrs.links.items) = 2
    /\ node.attrs.links.items[1] # node.attrs.links.items[2]
    /\ Len(ChildrenWithTag(elem, QName(atom_ns, "entry"), 1)) = 2
    /\ Len(ChildrenWithTag(elem, QName(atom_ns, "link"), 1)) = 2

\* C15: a create_xml(parent, tag) that returns has appended one new element
\* as the last child of parent and left the children that parent had
\* unchanged and in order; the new element has the tag given or, when none
\* is given, the standard tag of the class; it is the element returned, and
\* it is what one call of prepare_xml makes of a new element.
C15_CreateXml ==
    (ret.op = "create_xml" /\ ret.exc = "") =>
        /\ elem.children = Append(old.children, Encoded)
        /\ [elem EXCEPT !.children = old.children] = old
        /\ Encoded.tag = IF ret.args[1] # "" THEN ret.args[1]
                         ELSE DocumentTag(node.cls)
        /\ ret.val = Encoded
        /\ Encoded = prepare_xml(node.cls, node, NewElement(Encoded.tag)).val

\* C15 happens: an entry is encoded without a tag into a parent that has a
\* child, and becomes its second child, an atom:entry with content.
C15_Witness ==
    /\ ret.op = "create_xml" /\ ret.args = <<"">> /\ ret.exc = ""
    /\ node.cls = "AtomEntry"
    /\ old.children = <<Empty("first")>>
    /\ Len(elem.children) = 2
    /\ elem.children[2].tag = QName(atom_ns, "entry")
    /\ elem.children[2].children # <<>>

\* C17: a class that requires a field checks it at the start of its own
\* prepare_xml, before it calls its base: encoding a node that has a
\* required field unset raises IncompleteObjectError, and the element
\* created for the node has then no attribute, text or child.
C17_CheckBeforeWrite ==
    (ret.op = "create_xml" /\ ret.args = <<"root">> /\ RequiredUnset(node)) =>
        /\ ret.exc = "IncompleteObjectError"
        /\ elem.children = Append(old.children, NewElement("root"))

(***************************************************************************)
(* Properties of an encoding that fails.                                   *)
(***************************************************************************)
\* v is a date that fails its required-field check: its datetime is None.
BrokenDate(v) ==
    v.t = "obj" /\ v.cls = "AtomDate" /\ v.attrs.datetime = None

\* The fields of self that hold such a date.
BrokenFields(self) == {f \in DOMAIN self.attrs : BrokenDate(self.attrs[f])}

\* self with every such date given a datetime.
Repaired(self) ==
    [self EXCEPT !.attrs =
        [f \in DOMAIN self.attrs |->
            IF BrokenDate(self.attrs[f]) THEN Full.date ELSE self.attrs[f]]]

\* The first such field that the encoding of an Atom node comes to: updated
\* is written by AtomMeta, published after it by AtomEntry.
FirstBroken(self) ==
    IF "updated" \in BrokenFields(self) THEN "updated" ELSE "published"

\* The position of the first child of element that has the tag.
FirstTagged(element, tag) ==
    CHOOSE i \in 1..Len(element.children) :
        /\ element.children[i].tag = tag
        /\ \A j \in 1..(i - 1) : element.children[j].tag # tag

\* element as it is when the child with the tag has just been created:
\* the children before it are written, it is empty, nothing follows it.
CutAt(element, tag) ==
    [element EXCEPT !.children =
        Append(SubSeq(element.children, 1, FirstTagged(element, tag) - 1),
               NewElement(tag))]

\* parent with its last child cut at the tag.
LastCutAt(parent, tag) ==
    [parent EXCEPT !.children[Len(parent.children)] = CutAt(@, tag)]

\* C18: when the encoding of a nested node fails at its required-field
\* check, the call raises that error, and the parent is left with all it
\* had and, as its new last child, the element of the encoded node with
\* every attribute and child written before the failing node, followed by
\* the empty element created for the failing node and by nothing else.
C18_PartialOutput ==
    (ret.op = "create_xml" /\ BrokenFields(node) # {}) =>
        /\ create_xml(Repaired(node), old, ret.args[1]).exc = ""
        /\ ret.exc # ""
        /\ ret.exc = create_xml(node.attrs[FirstBroken(node)], NewElement("p"),
                                QName(atom_ns, FirstBroken(node))).exc
        /\ elem = LastCutAt(create_xml(Repaired(node), old, ret.args[1]).val,
                            QName(atom_ns, FirstBroken(node)))

\* An entry whose updated date has no datetime was encoded under a parent:
\* the call raised, and the entry's element is there with the children
\* written before the date and the date's empty element last.
C18_Witness ==
    /\ ret.op = "create_xml" /\ ret.exc # ""
    /\ node.cls = "AtomEntry" /\ BrokenDate(node.attrs.updated)
    /\ Len(elem.children) = Len(old.children) + 1
    /\ elem.children[Len(elem.children)].tag = QName(atom_ns, "entry")
    /\ Len(elem.children[Len(elem.children)].children) > 1
    /\ elem.children[Len(elem.children)].children[
            Len(elem.children[Len(elem.children)].children)]
          = NewElement(QName(atom_ns, "updated"))

(***************************************************************************)
(* Properties of the wiring of the decode routines.                        *)
(***************************************************************************)
\* The names that the from_xml of class c passes to inner_from_xml.
NamesAsked(c) ==
    {Arms(c)[i].name : i \in 1..Len(Arms(c))} \ {""}

\* The names that decoding with cls can pass to inner_from_xml: those of
\* its own from_xml and of every from_xml it inherits.
NamesUsed(cls) ==
    UNION {NamesAsked(Mro(cls)[i]) : i \in 1..Len(Mro(cls))}

\* C19: for every class of the vocabulary and every name that its from_xml
\* or one it inherits passes to inner_from_xml, the lookup finds a handler
\* in an inner_factory of the class's __mro__, whatever the element is.
C19_Wired ==
    (ret.op = "inner_from_xml" /\ ret.args[2] \in NamesUsed(ret.args[1])) =>
        ret.called # <<>>

(***************************************************************************)
(* Properties of the chain of from_xml calls.                              *)
(***************************************************************************)
\* The classes of the __mro__ of cls that define a from_xml, most derived
\* first: every class does but AppEntry (and object).
StagesOf(cls) ==
    LET Defines(c) == c \notin {"AppEntry", "object"}
    IN  SelectSeq(Mro(cls), Defines)

\* The from_xml bodies among the calls of a trace, and the constructor calls.
FromXmlCalls(trace) ==
    LET IsFromXml(e) == e.call = "from_xml"
    IN  SelectSeq(trace, IsFromXml)

InitCalls(trace) ==
    LET IsInit(e) == e.call = "__init__"
    IN  SelectSeq(trace, IsInit)

\* The keywords that the from_xml of class c gathers from the element when
\* it is called alone: those it hands to the from_xml of its base.
Contributed(c, element) ==
    IF c \in {"object", "XMLObject"} THEN {}
    ELSE DOMAIN from_xml(c, c, element, NoKw).trace[2].kw

\* The chain of a call of cls.from_xml with the caller's keywords kw, given
\* the from_xml bodies f and the constructor calls init it made, and its
\* outcome r.
Chained(cls, element, kw, f, init, r) ==
    /\ Len(f) >= 1 /\ Len(f) <= Len(StagesOf(cls))
    /\ \A i \in 1..Len(f) : f[i].cls = StagesOf(cls)[i]
    /\ f[1].kw = kw
    /\ \A i \in 2..Len(f) : DOMAIN f[i - 1].kw \subseteq DOMAIN f[i].kw
    /\ Len(init) <= 1
    /\ r.exc = "" => Len(init) = 1
    /\ Len(init) = 1 =>
          /\ Len(f) = Len(StagesOf(cls))
          /\ init[1].cls = cls
          /\ init[1].kw = f[Len(f)].kw
          /\ DOMAIN init[1].kw
                = (DOMAIN kw)
                    \cup UNION {Contributed(StagesOf(cls)[i], element) :
                                    i \in 1..Len(f)}
          /\ r = New(cls, init[1].kw)

\* C20: a call of cls.from_xml runs the from_xml of each class of the
\* __mro__ that defines one at most once and in __mro__ order, most derived
\* first, each passing on the keywords it received; a call that is not
\* ended by an exception before reaches the from_xml of XMLObject, which
\* alone calls the constructor, once, for cls, with the caller's keywords
\* and those every from_xml gathered, and the call returns what the
\* constructor returns.
C20_TwoPhase ==
    ret.op = "from_xml" =>
        /\ Chained(ret.args[1], elem, ret.args[2], FromXmlCalls(ret.called),
                   InitCalls(ret.called), Untraced(ret))
        /\ InitCalls(ret.called) # <<>> =>
              ret.called[Len(ret.called)].call = "__init__"

\* C20 happens: a feed with children was decoded with a keyword of the
\* caller; AtomFeed, AtomSource, AtomMeta, AtomCommon and XMLObject ran in
\* this order and the constructor last, with the caller's keyword and the
\* gathered ones.
C20_Witness ==
    /\ ret.op = "from_xml" /\ ret.args = <<"AtomFeed", [id |-> Str("k")]>>
    /\ ret.exc = ""
    /\ elem.children # <<>>
    /\ [i \in 1..Len(ret.called) |-> ret.called[i].cls]
          = <<"AtomFeed", "AtomSource", "AtomMeta", "AtomCommon", "XMLObject",
              "AtomFeed">>
    /\ {"id", "title", "entries", "links", "lang"}
          \subseteq DOMAIN ret.called[6].kw
    /\ ret.val.attrs.id = Str("k")
    /\ ret.val.attrs.title # None

(***************************************************************************)
(* Properties of the order in which an element is populated.               *)
(***************************************************************************)
\* In the prepare_xml of class c the call of the base prepare_xml comes
\* before every statement that writes to the element.
SuperFirst(c, self) ==
    /\ \A i \in 2..Len(Steps(c, self)) : Steps(c, self)[i].op # "super"
    /\ (\E i \in 1..Len(Steps(c, self)) :
            Steps(c, self)[i].op \notin {"super", "raise"})
          => Steps(c, self)[1].op = "super"

\* The tags of the children of the element of a source, entry or feed, in
\* the order in which the classes contribute them: AtomMeta, then
\* AtomSource or AtomEntry, then AtomFeed.
ChildOrder(cls) ==
    [i \in 1..8 |->
        QName(atom_ns, <<"author", "category", "contributor", "id", "link",
                         "rights", "title", "updated">>[i])]
      \o (IF cls = "AtomEntry"
          THEN [i \in 1..4 |->
                  QName(atom_ns,
                        <<"content", "published", "source", "summary">>[i])]
          ELSE [i \in 1..4 |->
                  QName(atom_ns,
                        <<"generator", "icon", "logo", "subtitle">>[i])])
      \o (IF cls = "AtomFeed" THEN <<QName(atom_ns, "entry")>> ELSE <<>>)

\* The place of a tag in a sequence of tags, 0 when it is not in it.
PlaceOf(tag, order) ==
    IF \E i \in 1..Len(order) : order[i] = tag
    THEN CHOOSE i \in 1..Len(order) : order[i] = tag
    ELSE 0

\* C21: in an encoding that returns, each prepare_xml of the node's classes
\* has called the prepare_xml of its base before it wrote anything, and the
\* children of the element of a source, entry or feed are AtomMeta's
\* (authors, categories, contributors, id, links, rights, title, updated),
\* then AtomSource's (generator, icon, logo, subtitle) or AtomEntry's, then
\* the entries of a feed.
C21_PopulateOrder ==
    (ret.op \in {"create_xml", "create_root_xml"} /\ ret.exc = "") =>
        /\ \A i \in 1..(Len(Mro(node.cls)) - 1) :
              SuperFirst(Mro(node.cls)[i], node)
        /\ node.cls \in {"AtomSource", "AtomEntry", "AtomFeed"} =>
              /\ \A i \in 1..Len(Encoded.children) :
                    PlaceOf(Encoded.children[i].tag, ChildOrder(node.cls)) > 0
              /\ \A i \in 1..Len(Encoded.children) :
                    \A j \in i..Len(Encoded.children) :
                        PlaceOf(Encoded.children[i].tag, ChildOrder(node.cls))
                          <= PlaceOf(Encoded.children[j].tag,
                                     ChildOrder(node.cls))

\* C21 happens: a feed with every field set is encoded; its element has
\* the children of all three classes, the entries last.
C21_Witness ==
    /\ ret.op = "create_root_xml" /\ ret.exc = ""
    /\ node = Full.feed
    /\ {elem.children[i].tag : i \in 1..Len(elem.children)}
          = {ChildOrder("AtomFeed")[i] : i \in 1..13}
    /\ elem.children[1].tag = QName(atom_ns, "author")
    /\ elem.children[Len(elem.children)].tag = QName(atom_ns, "entry")

(***************************************************************************)
(* Properties of the references to Elements.                               *)
(***************************************************************************)
\* The identities of the Element objects found in a value: in an element
\* and its descendants, or in the fields of a node.
RECURSIVE IdsOf(_)
IdsOf(v) ==
    IF v.t = "obj" THEN UNION {IdsOf(v.attrs[f]) : f \in DOMAIN v.attrs}
    ELSE IF v.t # "Element" THEN {}
    ELSE (IF "id" \in DOMAIN v THEN {v.id} ELSE {})
            \cup UNION {IdsOf(v.children[i]) : i \in 1..Len(v.children)}

\* C22: a node that from_xml returned refers to no Element of the tree it
\* was decoded from, neither to the source element nor to a descendant of
\* it, and assigning to an element of the source tree afterwards changes
\* no field of the node.
C22_NoBackReference ==
    /\ (ret.op = "from_xml" /\ ret.exc = "") => IdsOf(node) \cap IdsOf(elem) = {}
    /\ ret.op = "set_text" => node = ret.val

\* The (parent, child) pairs of the tree of element v, for the children
\* that are identified objects.  The parent is <<0, id>> when it is an
\* identified object itself, and else, an element that an encoding created,
\* the place at where it is found.
RECURSIVE ChildLinks(_, _)
ChildLinks(v, at) ==
    LET Under(parent) ==
            {<<parent, v.children[i].id>> :
                i \in {j \in 1..Len(v.children) :
                            /\ v.children[j].t = "Element"
                            /\ "id" \in DOMAIN v.children[j]}}
    IN  IF v.t # "Element" THEN {}
        ELSE Under(IF "id" \in DOMAIN v THEN <<0, v.id>> ELSE at)
                \cup UNION {ChildLinks(v.children[i], Append(at, i)) :
                                i \in 1..Len(v.children)}

\* The pairs of every tree the caller holds: the source tree, the elements
\* that the fields of the node refer to, and the parents encoded into.
AllChildLinks ==
    ChildLinks(elem, <<1, 0>>)
        \cup (IF node.t # "obj" THEN {}
              ELSE UNION {ChildLinks(node.attrs[f], <<1, 1>>) :
                             f \in DOMAIN node.attrs})
        \cup UNION {ChildLinks(old[k], <<1, 1 + k>>) : k \in 1..Len(old)}

\* C23: after any decoding and encoding, every Element is a child of at
\* most one parent Element.
C23_SingleOwner ==
    \A a \in AllChildLinks : \A b \in AllChildLinks : a[2] = b[2] => a[1] = b[1]

(***************************************************************************)
(* Properties of the date construct.                                       *)
(***************************************************************************)
\* The whole of text s has the form YYYY-MM-DDThh:mm:ss[.fraction] followed
\* by Z or by +hh:mm or -hh:mm.
Conforms(s) ==
    /\ DateMatch(s).matched
    /\ Len(s) = 19
                + (IF DateMatch(s).frac = "" THEN 0 ELSE 1 + Len(DateMatch(s).frac))
                + (IF DateMatch(s).hasoff THEN 6 ELSE 1)

\* The offset in minutes that a conforming text states: 0 for Z, and the
\* hours and minutes with their sign.
StatedOffset(s) ==
    IF At(s, Len(s)) = "Z" THEN 0
    ELSE (IF At(s, Len(s) - 5) = "-" THEN 0 - 1 ELSE 1)
            * (60 * ParseInt(SubSeq(s, Len(s) - 4, Len(s) - 3))
                + ParseInt(SubSeq(s, Len(s) - 1, Len(s))))

\* utcoffset() of an aware datetime, in minutes.
UtcOffset(dt) == dt.tzinfo.offset

\* The local time of a datetime.
LocalTime(dt) ==
    <<dt.year, dt.month, dt.day, dt.hour, dt.minute, dt.second, dt.microsecond>>

\* C24: an encoded date has the form YYYY-MM-DDThh:mm:ss[.fraction] with an
\* explicit offset or Z; a decoded conforming text yields the UTC offset
\* that the text states, sign included; and decoding the encoding of a
\* whole-second time at an offset from -23:59 to +23:59 yields the same
\* local time at the same signed offset.
C24_OffsetFidelity ==
    /\ (ret.op = "create_xml" /\ ret.exc = "") =>
            elem.text.t = "str" /\ Conforms(elem.text.s)
    /\ (ret.op = "from_xml" /\ old = <<>> /\ elem.text.t = "str"
            /\ Conforms(elem.text.s)) =>
            /\ ret.exc = ""
            /\ node.attrs.datetime # None
            /\ UtcOffset(node.attrs.datetime) = StatedOffset(elem.text.s)
    /\ (ret.op = "from_xml" /\ old # <<>>
            /\ old[1].attrs.datetime.microsecond = 0
            /\ old[1].attrs.datetime.tzinfo # NoTzInfo) =>
            /\ ret.exc = ""
            /\ node.attrs.datetime # None
            /\ LocalTime(node.attrs.datetime) = LocalTime(old[1].attrs.datetime)
            /\ UtcOffset(node.attrs.datetime) = UtcOffset(old[1].attrs.datetime)

\* C25: decoding a date element whose text does not conform, or that has no
\* text, returns a date node without a datetime and raises nothing.
C25_Unparseable ==
    (ret.op = "from_xml" /\ old = <<>>
        /\ (elem.text.t = "str" => ~Conforms(elem.text.s))) =>
        /\ ret.exc = ""
        /\ node.t = "obj" /\ node.cls = "AtomDate"
        /\ node.attrs.datetime = None

(***************************************************************************)
(* Properties of the constructors that the decoding calls.                 *)
(***************************************************************************)
\* The keyword parameters of the constructors in the ancestry of a class.
Accepted(cls) ==
    UNION {DOMAIN InitParams(Mro(cls)[i]) :
              i \in {j \in 1..Len(Mro(cls)) :
                        Mro(cls)[j] # "object" /\ HasInit(Mro(cls)[j])}}

\* C26: when the decode chain of a class, called without keywords of the
\* caller, reaches the constructor, every keyword that the stages collected
\* is a parameter of a constructor in the ancestry of the class, and the
\* construction completes.
C26_ConstructorAccepts ==
    (ret.op = "from_xml" /\ ret.args[2] = NoKw) =>
        \A i \in DOMAIN ret.called :
            ret.called[i].call = "__init__" =>
                /\ DOMAIN ret.called[i].kw \subseteq Accepted(ret.called[i].cls)
                /\ ret.exc = ""

(***************************************************************************)
(* Properties of sequences of calls to the link helpers.                   *)
(***************************************************************************)
\* What holds for a rel last given to replace_link with href h: one link
\* with the rel, and the getters return h.
Replaced(self, r, h) ==
    /\ Cardinality({i \in 1..Len(self.attrs.links.items) :
                        self.attrs.links.items[i].attrs.rel = r}) = 1
    /\ get_links(self, r) = List(<<h>>)
    /\ get_link(self, r) = h

\* What holds for a rel last given to remove_links: no link with the rel,
\* and the getters return nothing.
Removed(self, r) ==
    /\ \A i \in 1..Len(self.attrs.links.items) :
            self.attrs.links.items[i].attrs.rel # r
    /\ get_links(self, r) = List(<<>>)
    /\ get_link(self, r) = None

\* A helper call that is not replace_link or remove_links for rel r.
CallsElsewhere(r) ==
    /\ ret'.op \in {"get_link", "get_links", "get_first_link", "replace_link",
                    "remove_links"}
    /\ ret'.op \in {"replace_link", "remove_links"} => ret'.args[1] # r

\* C27: replace_link(r, h) leaves exactly one link with rel r, with
\* get_links(r) = [h] and get_link(r) = h, and remove_links(r) leaves none,
\* with get_links(r) = [] and get_link(r) None; and either holds on for as
\* long as the calls that follow are helper calls other than replace_link
\* and remove_links for r, so it holds of the most recent such call for
\* every rel after any sequence of them.
C27_LinkSequences ==
    /\ [](/\ ret.op = "replace_link" => Replaced(node, ret.args[1], ret.args[2])
          /\ ret.op = "remove_links" => Removed(node, ret.args[1]))
    /\ [][\A r \in Rels :
            /\ \A h \in Hrefs \cup NewHrefs :
                (Replaced(node, r, h) /\ CallsElsewhere(r)) => Replaced(node', r, h)
            /\ (Removed(node, r) /\ CallsElsewhere(r)) => Removed(node', r)]_vars

\* replace_link("self", "z") was followed by remove_links("alt") that took
\* links away, and the one self link is still there.
C27_Witness ==
    /\ ret.op = "remove_links" /\ ret.args = <<Str("alt")>>
    /\ get_links(old, Str("alt")).items # <<>>
    /\ Replaced(old, Str("self"), Str("z"))
    /\ Replaced(node, Str("self"), Str("z"))

\* [link for link in links if link.rel != r], the links a call for rel r
\* is to leave alone.
Others(self, r) == LinksWithout(self.attrs.links.items, 1, r)

\* C28: replace_link(r, ...) and remove_links(r) leave the links with
\* another rel as they were, in the same order, and change no field of
\* the node but links; get_link, get_links and get_first_link change
\* nothing.
C28_LinkFrame ==
    /\ ret.op \in {"replace_link", "remove_links"} =>
            /\ Others(node, ret.args[1]) = Others(old, ret.args[1])
            /\ [node EXCEPT !.attrs.links = old.attrs.links] = old
    /\ ret.op \in {"get_link", "get_links", "get_first_link"} => node = old

\* remove_links("self") took a link from between two links with another
\* rel, which stay.
C28_Witness ==
    /\ ret.op = "remove_links" /\ ret.args = <<Str("self")>>
    /\ Len(old.attrs.links.items) = 3
    /\ old.attrs.links.items[2].attrs.rel = Str("self")
    /\ node.attrs.links.items
            = <<old.attrs.links.items[1], old.attrs.links.items[3]>>
    /\ old.attrs.links.items[1] # old.attrs.links.items[3]

(***************************************************************************)
(* Properties of the node across encodings.                                *)
(***************************************************************************)
\* C29: create_xml and create_root_xml leave the node and its nested nodes
\* as they were, whether they return or raise; and once the caller has set
\* what was missing after an encoding that raised, so that the node is
\* populated again, the second encoding, into a new parent, returns, with
\* the element that the encoding of that node gives on a first attempt.
C29_EncodeLeavesNode ==
    [][/\ ret'.op \in {"create_xml", "create_root_xml"} => node' = node
       /\ (/\ ret.op = "set_field" /\ ret'.op = "create_xml"
           /\ \E kind \in DOMAIN Full : node = Full[kind]) =>
                /\ ret'.exc = ""
                /\ old' = NewElement("parent")
                /\ elem' = create_xml(node', old', "root").val
                /\ elem'.children = <<ret'.val>>]_vars

(***************************************************************************)
\* The class that decodes the items of a list-valued field.
ItemClass(field) ==
    CASE field \in {"authors", "contributors"} -> "AtomPerson"
      [] field = "categories" -> "AtomCategory"
      [] field = "links" -> "AtomLink"
      [] field = "entries" -> "AtomEntry"

\* The fields of a decoded node in which repeated children are collected.
RepeatedFields(cls) ==
    {"authors", "categories", "contributors", "links", "entries"}
        \cap DOMAIN ListFieldTags(cls)

\* C30: a decoding returns, and each of the fields authors, categories,
\* contributors, links and entries of the node holds one item for every
\* child of the element with the tag of the field, the decoding of that
\* child, in the order of the children and whatever stands between them,
\* equal children each giving an item; and the field is a list that the
\* constructor made for this node with list(...).
C30_DocumentOrder ==
    ret.op = "from_xml" =>
        /\ ret.exc = ""
        /\ \A f \in RepeatedFields(ret.args[1]) :
            /\ node.attrs[f].t = "list"
            /\ \E c \in {Mro(ret.args[1])[i] : i \in 1..Len(Mro(ret.args[1]))} :
                    c # "object" /\ f \in ListParams(c)
            /\ Len(node.attrs[f].items)
                  = Len(ChildrenWithTag(elem, ListFieldTags(ret.args[1])[f], 1))
            /\ \A i \in 1..Len(node.attrs[f].items) :
                    node.attrs[f].items[i]
                        = from_xml(ItemClass(f), ItemClass(f),
                                   ChildrenWithTag(elem,
                                       ListFieldTags(ret.args[1])[f], 1)[i],
                                   NoKw).val

\* A feed was decoded whose children are link a, an entry, and link b: the
\* links are a and b in this order, with one entry.
C30_Witness ==
    /\ ret.op = "from_xml" /\ ret.args = <<"AtomFeed">> /\ ret.exc = ""
    /\ Len(elem.children) = 3
    /\ elem.children[2].tag = QName(atom_ns, "entry")
    /\ Len(node.attrs.links.items) = 2
    /\ node.attrs.links.items[1].attrs.href = Str("a")
    /\ node.attrs.links.items[2].attrs.href = Str("b")
    /\ Len(node.attrs.entries.items) = 1

====
